---- MODULE Spec2Model ----
(***************************************************************************)
(* A model of the snapshot comparison tool of oareport-parser              *)
(* (src/extractors/compare_snapshots.py): the value comparator, the keyed  *)
(* and the wide merge, the per-section aggregation and the comparison run. *)
(*                                                                         *)
(* Text is modelled as a sequence of one-character strings, so that the    *)
(* string operations of the code (replace, startswith, split, the "in"     *)
(* substring test) are computed and not assumed.  A Python scalar is a     *)
(* record [k, m, e, s]:                                                    *)
(*   k = "str"   a str, its characters in s                                *)
(*   k = "int"   an int, its value in m                                    *)
(*   k = "num"   a finite float, the decimal m * 10^(-e)                   *)
(*   k = "inf"   a float infinity, its sign (1 or -1) in m                 *)
(*   k = "nan"   the float NaN (also pandas' missing value)                *)
(*   k = "none"  None                                                      *)
(* Finite floats are exact decimals: the inputs of the model are decimal   *)
(* strings, and the code only scales by 100, subtracts, divides once and   *)
(* rounds to a number of decimals.                                         *)
(***************************************************************************)
EXTENDS Integers, Sequences, FiniteSets, TLC

VARIABLES
    old, new, is_whole, cmp,                  \* a call of compare_values and what it returned
    old_df, new_df, key_col, out,             \* a call of a merge function and what it returned
    store, date1, date2, pc, df, sec_result,  \* a comparison run: main and process_section
    all_results, workbook, log,
    url_arg, org_ret,                         \* a call of extract_org_from_url and what it returned
    id_args, id,                              \* a call of make_id and what it returned
    folder, sheet, call, calls                \* the spreadsheet storage and the upload call under way

cmpVars == <<old, new, is_whole, cmp>>
mergeVars == <<old_df, new_df, key_col, out>>
runVars == <<store, date1, date2, pc, df, sec_result, all_results, workbook, log>>
helperVars == <<url_arg, org_ret, id_args, id>>
uploadVars == <<folder, sheet, call, calls>>
vars == <<cmpVars, mergeVars, runVars, helperVars, uploadVars>>

----------------------------------------------------------------------------
(* Python scalars *)

V(k, m, e, s) == [k |-> k, m |-> m, e |-> e, s |-> s]
Str(s) == V("str", 0, 0, s)
PyInt(n) == V("int", n, 0, <<>>)
Num(m, e) == V("num", m, e, <<>>)
Inf(sign) == V("inf", sign, 0, <<>>)
NaN == V("nan", 0, 0, <<>>)
None == V("none", 0, 0, <<>>)
NA == Str(<<"N", "/", "A">>)
\* the outcome of a conversion that raised ValueError
ValueError == V("err", 0, 0, <<>>)

Abs(n) == IF n < 0 THEN -n ELSE n
Sign(n) == IF n < 0 THEN -1 ELSE 1
Max(a, b) == IF a >= b THEN a ELSE b

RECURSIVE Pow10(_)
Pow10(k) == IF k = 0 THEN 1 ELSE 10 * Pow10(k - 1)

Digits == {"0", "1", "2", "3", "4", "5", "6", "7", "8", "9"}
DigitVal(c) ==
    CASE c = "0" -> 0 [] c = "1" -> 1 [] c = "2" -> 2 [] c = "3" -> 3 [] c = "4" -> 4
      [] c = "5" -> 5 [] c = "6" -> 6 [] c = "7" -> 7 [] c = "8" -> 8 [] c = "9" -> 9
DigitChar(d) == <<"0", "1", "2", "3", "4", "5", "6", "7", "8", "9">>[d + 1]

RECURSIVE DigitsVal(_)
DigitsVal(s) ==
    IF s = <<>> THEN 0
    ELSE 10 * DigitsVal(SubSeq(s, 1, Len(s) - 1)) + DigitVal(s[Len(s)])

RECURSIVE NatToChars(_)
NatToChars(n) ==
    IF n < 10 THEN <<DigitChar(n)>> ELSE NatToChars(n \div 10) \o <<DigitChar(n % 10)>>

\* str(x) of a scalar.  A finite float is never an input of the model (the stored
\* cells are text, ints, None or NaN), so its repr is not needed.
PyStr(v) ==
    CASE v.k = "str" -> v.s
      [] v.k = "int" -> IF v.m < 0 THEN <<"-">> \o NatToChars(-v.m) ELSE NatToChars(v.m)
      [] v.k = "nan" -> <<"n", "a", "n">>
      [] v.k = "inf" -> IF v.m < 0 THEN <<"-", "i", "n", "f">> ELSE <<"i", "n", "f">>
      [] v.k = "none" -> <<"N", "o", "n", "e">>

\* pd.isna / pd.notna of a scalar
isna(v) == v.k \in {"none", "nan"}
notna(v) == ~isna(v)

\* s.replace(c, "") for a one-character c
Remove(s, c) == SelectSeq(s, LAMBDA x : x # c)

\* float(s) for the strings of the model's alphabet: an optional sign, then "inf",
\* "nan", or digits with at most one point and at least one digit; anything else
\* (the empty string, "N/A", "None", a stray character) raises ValueError.
ParseFloat(s) ==
    LET signed == s # <<>> /\ s[1] \in {"-", "+"}
        sign == IF signed /\ s[1] = "-" THEN -1 ELSE 1
        body == IF signed THEN SubSeq(s, 2, Len(s)) ELSE s
        dots == {i \in 1..Len(body) : body[i] = "."}
        digs == SelectSeq(body, LAMBDA x : x \in Digits)
        frac == IF dots = {} THEN 0 ELSE Len(body) - (CHOOSE i \in dots : TRUE)
    IN  IF body = <<"i", "n", "f">> THEN Inf(sign)
        ELSE IF body = <<"n", "a", "n">> THEN NaN
        ELSE IF /\ digs # <<>>
                /\ Cardinality(dots) <= 1
                /\ \A i \in 1..Len(body) : body[i] \in Digits \cup {"."}
             THEN Num(sign * DigitsVal(digs), frac)
        ELSE ValueError

----------------------------------------------------------------------------
(* Float arithmetic on exact decimals, with inf and nan *)

\* the mantissa of the decimal x at e decimals
Align(x, e) == IF x.m = 0 THEN 0 ELSE x.m * Pow10(e - x.e)

\* x left as it is
Div100_skipped(x) == x

\* x / 100
Div100(x) == IF x.k = "num" THEN Num(x.m, x.e + 2) ELSE x

\* a - b with the operands exchanged
Sub_swapped(a, b) ==
    IF a.k = "nan" \/ b.k = "nan" THEN NaN
    ELSE IF a.k = "inf" /\ b.k = "inf" THEN (IF a.m = b.m THEN NaN ELSE b)
    ELSE IF b.k = "inf" THEN b
    ELSE IF a.k = "inf" THEN Inf(-a.m)
    ELSE LET e == Max(a.e, b.e) IN Num(Align(b, e) - Align(a, e), e)

\* a - b
Sub(a, b) ==
    IF a.k = "nan" \/ b.k = "nan" THEN NaN
    ELSE IF a.k = "inf" /\ b.k = "inf" THEN (IF a.m = b.m THEN NaN ELSE a)
    ELSE IF a.k = "inf" THEN a
    ELSE IF b.k = "inf" THEN Inf(-b.m)
    ELSE LET e == Max(a.e, b.e) IN Num(Align(a, e) - Align(b, e), e)

\* abs(x) < 1e-12
NearZero(x) ==
    /\ x.k = "num"
    /\ IF x.e <= 12 THEN x.m = 0 ELSE Abs(x.m) < Pow10(x.e - 12)

\* <<floor(n * 10^k / d), the remainder>> for n >= 0, d > 0, one digit at a time
RECURSIVE LongDiv(_, _, _)
LongDiv(n, d, k) ==
    IF k = 0 THEN <<n \div d, n % d>>
    ELSE LET p == LongDiv(n, d, k - 1)
         IN  <<10 * p[1] + ((10 * p[2]) \div d), (10 * p[2]) % d>>

\* the quotient q with remainder r of a division by d, rounded half to even
HalfEven(q, r, d) ==
    IF 2 * r > d \/ (2 * r = d /\ q % 2 = 1) THEN q + 1 ELSE q

\* round(x, nd) of a float
Round(x, nd) ==
    IF x.k # "num" THEN x
    ELSE IF x.e <= nd THEN Num(Align(x, nd), nd)
    ELSE IF x.e - nd > 9 THEN Num(0, nd)
    ELSE LET p == Pow10(x.e - nd)
             a == Abs(x.m)
         IN  Num(Sign(x.m) * HalfEven(a \div p, a % p, p), nd)

\* round((delta / old_val) * 100, 2) for an old_val that is not near zero
RoundPct(delta, old_val) ==
    IF delta.k = "nan" \/ old_val.k = "nan" THEN NaN
    ELSE IF delta.k = "inf" /\ old_val.k = "inf" THEN NaN
    ELSE IF delta.k = "inf" THEN Inf(delta.m * Sign(old_val.m))
    ELSE IF old_val.k = "inf" THEN Num(0, 2)
    ELSE LET e == Max(delta.e, old_val.e)
             n == Align(delta, e)
             d == Align(old_val, e)
             p == LongDiv(Abs(n), Abs(d), 4)
         IN  Num(Sign(n) * Sign(d) * HalfEven(p[1], p[2], Abs(d)), 2)

----------------------------------------------------------------------------
(* compare_values *)

\* what a call produced: exc names the exception that escaped it ("" when it returned)
Returned(newv, oldv, delta, pct) ==
    [exc |-> "", newv |-> newv, oldv |-> oldv, delta |-> delta, pct |-> pct]
Raised(e) == [exc |-> e, newv |-> None, oldv |-> None, delta |-> None, pct |-> None]
NotCalled == Raised("not called")

\* float(str(x).replace("%", "").replace(",", ""))
ToFloat(x) == ParseFloat(Remove(Remove(PyStr(x), "%"), ","))

\* the try block of compare_values
compare_values_try(o, n, whole) ==
    LET po == ToFloat(o)
        pn == ToFloat(n)
        old_val == IF whole THEN po ELSE Div100(po)
        new_val == IF whole THEN pn ELSE Div100(pn)
        delta == Sub(new_val, old_val)
        pct == IF NearZero(old_val) /\ NearZero(new_val) THEN Num(0, 2)
               ELSE IF NearZero(old_val) THEN Round(Inf(1), 2)
               ELSE RoundPct(delta, old_val)
    IN  IF po = ValueError \/ pn = ValueError THEN Raised("ValueError")
        ELSE Returned(Round(new_val, 4), Round(old_val, 4), Round(delta, 4), pct)

\* an except block that gives "N/A" for all four
compare_values_except_blank(o, n) == Returned(NA, NA, NA, NA)

\* the except block of compare_values
compare_values_except(o, n) ==
    Returned(IF isna(n) THEN NA ELSE n, IF isna(o) THEN NA ELSE o, NA, NA)

\* compare_values without its except block
compare_values_unguarded(o, n, whole) == compare_values_try(o, n, whole)

compare_values(o, n, whole) ==
    LET r == compare_values_try(o, n, whole)
    IN  IF r.exc # "" THEN compare_values_except(o, n) ELSE r

----------------------------------------------------------------------------
(* Data frames: [columns |-> the column names, rows |-> the rows in order, each a
   function from the column names to a cell] *)

\* column names
col_Value == <<"V", "a", "l", "u", "e">>
col_value == <<"v", "a", "l", "u", "e">>
col_KEY == <<"K", "E", "Y">>
col_collection_time == <<"c", "o", "l", "l", "e", "c", "t", "i", "o", "n", "_", "t", "i", "m", "e">>
col_org_url == <<"o", "r", "g", "_", "u", "r", "l">>
col_Page_URL == <<"P", "a", "g", "e", "_", "U", "R", "L">>
col_Original_URL == <<"O", "r", "i", "g", "i", "n", "a", "l", "_", "U", "R", "L">>
col_org == <<"o", "r", "g">>
col_Insight == <<"I", "n", "s", "i", "g", "h", "t">>
col_strategy == <<"s", "t", "r", "a", "t", "e", "g", "y">>
col_date_range == <<"d", "a", "t", "e", "_", "r", "a", "n", "g", "e">>

\* s in t for two strings: s occurs in t
Contains(t, s) == \E i \in 0..(Len(t) - Len(s)) : SubSeq(t, i + 1, i + Len(s)) = s

\* x == y on two cells, as pandas compares a column with a scalar: a null equals nothing
CellEq(x, y) == notna(x) /\ notna(y) /\ x = y

\* the same key for drop_duplicates and merge, which take nulls as equal to each other
SameKey(x, y) == x = y \/ (isna(x) /\ isna(y))
SameKeys(a, b) == \A i \in 1..Len(a) : SameKey(a[i], b[i])

\* drop_duplicates on a sequence of key tuples: the first of each is kept
RECURSIVE DropDuplicates(_)
DropDuplicates(s) ==
    IF s = <<>> THEN <<>>
    ELSE LET front == DropDuplicates(SubSeq(s, 1, Len(s) - 1))
             last == s[Len(s)]
         IN  IF \E i \in 1..Len(front) : SameKeys(front[i], last) THEN front
             ELSE Append(front, last)

\* a left join: the keys of a alone
MergeOuter_left(a, b) == a

\* pd.merge(a, b, how="outer") of two duplicate-free key tables: every key of
\* either side once.  The row order of the merge is pandas' own and no property
\* of the model reads it: the keys of a come first here.
MergeOuter(a, b) ==
    a \o SelectSeq(b, LAMBDA k : ~\E i \in 1..Len(a) : SameKeys(a[i], k))

\* df.rename(columns={from: to})
Rename(d, from, to) ==
    [columns |-> (d.columns \ {from}) \cup {to},
     rows |-> [i \in 1..Len(d.rows) |->
                  [c \in (d.columns \ {from}) \cup {to} |->
                      IF c = to THEN d.rows[i][from] ELSE d.rows[i][c]]]]

\* "unify column name => 'Value'"
UnifyValue(d) ==
    IF col_Value \notin d.columns /\ col_value \in d.columns
    THEN Rename(d, col_value, col_Value) ELSE d

\* df[[key_col, date_col]].drop_duplicates()
KeysOf(d, kc, dc) ==
    DropDuplicates([i \in 1..Len(d.rows) |-> <<d.rows[i][kc], d.rows[i][dc]>>])

\* df[(df[key_col] == metric) & (df[date_col] == dr)]
Part(d, kc, dc, metric, dr) ==
    SelectSeq(d.rows, LAMBDA r : CellEq(r[kc], metric) /\ CellEq(r[dc], dr))

INSIGHTS_WHOLE_NUMBER_METRICS ==
    { <<"T", "o", "t", "a", "l", " ", "p", "u", "b", "l", "i", "c", "a", "t", "i", "o", "n", "s", " ", "(", "i", "n", "s", "i", "g", "h", "t", ")">>,
      <<"T", "o", "t", "a", "l", " ", "p", "r", "e", "p", "r", "i", "n", "t", "s", " ", "(", "i", "n", "s", "i", "g", "h", "t", ")">> }

\* a cell is a member of a set of strings
InStrings(x, S) == x.k = "str" /\ x.s \in S

\* the unit policy of process_rows_by_key: only an "(insight)" metric outside the
\* whole-number set is a percentage
KeyedIsWhole(metric) ==
    IF Contains(PyStr(metric), <<"(", "i", "n", "s", "i", "g", "h", "t", ")">>)
          /\ InStrings(metric, INSIGHTS_WHOLE_NUMBER_METRICS) THEN TRUE
    ELSE IF Contains(PyStr(metric), <<"(", "i", "n", "s", "i", "g", "h", "t", ")">>) THEN FALSE
    ELSE TRUE

\* one row of a comparison result ("% Change" is PctChange here)
ResultRow(dr, metric, c) ==
    [DATE_RANGE |-> dr, METRIC |-> metric, Old |-> c.oldv, New |-> c.newv,
     Change |-> c.delta, PctChange |-> c.pct]

\* what a merge function produced: its rows, or the exception that escaped it
Frame(rows) == [exc |-> "", rows |-> rows]
Failed(e) == [exc |-> e, rows |-> <<>>]
NoOut == Failed("not called")

\* the last matching row's value
FirstValue_last(part, c) == IF part # <<>> THEN part[Len(part)][c] ELSE NA

\* the value looked up on one side of a combo: the first matching row's, or "N/A"
FirstValue(part, c) == IF part # <<>> THEN part[1][c] ELSE NA

\* the result row of one combo of process_rows_by_key
KeyedRow(o, n, kc, dc, combo) ==
    LET metric == combo[1]
        dr == combo[2]
        val_old == FirstValue(Part(o, kc, dc, metric, dr), col_Value)
        val_new == FirstValue(Part(n, kc, dc, metric, dr), col_Value)
    IN  ResultRow(IF notna(dr) THEN dr ELSE NA,
                  IF notna(metric) THEN metric ELSE NA,
                  compare_values(val_old, val_new, KeyedIsWhole(metric)))

process_rows_by_key(o0, n0, kc, dc) ==
    LET o == UnifyValue(o0)
        n == UnifyValue(n0)
    IN  IF {kc, dc} \subseteq o.columns /\ {kc, dc} \subseteq n.columns
        THEN LET combos == MergeOuter(KeysOf(o, kc, dc), KeysOf(n, kc, dc))
                 \* a side without a Value column fails once a row of it matches
                 novalue == \E i \in 1..Len(combos) :
                     \/ col_Value \notin o.columns
                            /\ Part(o, kc, dc, combos[i][1], combos[i][2]) # <<>>
                     \/ col_Value \notin n.columns
                            /\ Part(n, kc, dc, combos[i][1], combos[i][2]) # <<>>
             IN  IF novalue THEN Failed("KeyError")
                 ELSE Frame([i \in 1..Len(combos) |-> KeyedRow(o, n, kc, dc, combos[i])])
        ELSE Failed("KeyError")

\* process_explore_section, with the order in which list(set(...)) gave the
\* metric columns: metrics is a sequence of the columns outside skip_cols
EXPLORE_WHOLE_NUMBER_METRICS ==
    { <<"P", "U", "B", "L", "I", "C", "A", "T", "I", "O", "N", "S">>, <<"T", "o", "t", "a", "l", " ", "A", "P", "C", " ", "a", "m", "o", "u", "n", "t">>, <<"M", "e", "a", "n", " ", "A", "P", "C", " ", "a", "m", "o", "u", "n", "t">>, <<"M", "e", "d", "i", "a", "n", " ", "A", "P", "C", " ", "a", "m", "o", "u", "n", "t">> }

skip_cols == {col_collection_time, col_org_url, col_KEY}
\* the metric columns of the old table alone
MetricColumns_old(o, n) == o.columns \ skip_cols

MetricColumns(o, n) == (o.columns \cup n.columns) \ skip_cols

\* the orders a set can be listed in
Orderings(S) ==
    {s \in [1..Cardinality(S) -> S] : \A i, j \in 1..Cardinality(S) : s[i] = s[j] => i = j}

\* df[df["KEY"] == dr]
KeyPart(d, dr) == SelectSeq(d.rows, LAMBDA r : CellEq(r[col_KEY], dr))

\* the value looked up on one side: the first row of the key, if the side has the column
ExploreValue(d, dr, metric) ==
    IF KeyPart(d, dr) # <<>> /\ metric \in d.columns THEN KeyPart(d, dr)[1][metric] ELSE NA

ExploreRow(o, n, dr, metric) ==
    ResultRow(IF notna(dr) THEN dr ELSE NA,
              Str(metric),
              compare_values(ExploreValue(o, dr, metric), ExploreValue(n, dr, metric),
                             metric \in EXPLORE_WHOLE_NUMBER_METRICS))

process_explore_section(o, n, metrics) ==
    IF col_KEY \in o.columns /\ col_KEY \in n.columns
    THEN LET keys == MergeOuter(KeysOf(o, col_KEY, col_KEY), KeysOf(n, col_KEY, col_KEY))
             M == Len(metrics)
         IN  Frame([i \in 1..(Len(keys) * M) |->
                      ExploreRow(o, n, keys[((i - 1) \div M) + 1][1], metrics[((i - 1) % M) + 1])])
    ELSE Failed("KeyError")

----------------------------------------------------------------------------
(* process_section *)

IndexError == V("IndexError", 0, 0, <<>>)
AttributeError == V("AttributeError", 0, 0, <<>>)

\* s.startswith(prefix)
StartsWith(s, prefix) == Len(prefix) <= Len(s) /\ SubSeq(s, 1, Len(prefix)) = prefix

\* the first position at which sep occurs in s, or 0
Find(s, sep) ==
    LET at == {i \in 1..(Len(s) - Len(sep) + 1) : SubSeq(s, i, i + Len(sep) - 1) = sep}
    IN  IF at = {} THEN 0 ELSE CHOOSE i \in at : \A j \in at : i <= j

\* s.split(sep)
RECURSIVE Split(_, _)
Split(s, sep) ==
    IF Find(s, sep) = 0 THEN <<s>>
    ELSE <<SubSeq(s, 1, Find(s, sep) - 1)>>
             \o Split(SubSeq(s, Find(s, sep) + Len(sep), Len(s)), sep)

\* s.strip(c) for a one-character c
RECURSIVE StripChar(_, _)
StripChar(s, c) ==
    IF s # <<>> /\ s[1] = c THEN StripChar(SubSeq(s, 2, Len(s)), c)
    ELSE IF s # <<>> /\ s[Len(s)] = c THEN StripChar(SubSeq(s, 1, Len(s) - 1), c)
    ELSE s

\* url.split(".report/")[1].split("?")[0].strip("/")
extract_org_from_url(url) ==
    IF url.k # "str" THEN AttributeError
    ELSE IF Len(Split(url.s, <<".", "r", "e", "p", "o", "r", "t", "/">>)) < 2 THEN IndexError
    ELSE Str(StripChar(Split(Split(url.s, <<".", "r", "e", "p", "o", "r", "t", "/">>)[2], <<"?">>)[1], "/"))

\* the table itself, whatever the date
filter_by_date_unfiltered(d, date_str) == d

\* df[df["collection_time"].str.startswith(date_str)], on a table that has the column
filter_by_date(d, date_str) ==
    [columns |-> d.columns,
     rows |-> SelectSeq(d.rows, LAMBDA r : StartsWith(r[col_collection_time].s, date_str))]

\* the exception filter_by_date raises on a table, if any
FilterFails(d) ==
    IF col_collection_time \notin d.columns THEN "KeyError"
    ELSE IF \E i \in 1..Len(d.rows) : d.rows[i][col_collection_time].k # "str" THEN "ValueError"
    ELSE ""

\* df.empty
Empty(d) == d.rows = <<>> \/ d.columns = {}

\* next((c for c in ["org_url","Page_URL","Original_URL"] if c in df.columns), None)
UrlColumn(d) ==
    IF col_org_url \in d.columns THEN col_org_url
    ELSE IF col_Page_URL \in d.columns THEN col_Page_URL
    ELSE IF col_Original_URL \in d.columns THEN col_Original_URL
    ELSE <<>>

\* df["org"] = df[url_col].apply(extract_org_from_url)
AttachOrg(d) ==
    [columns |-> d.columns \cup {col_org},
     rows |-> [i \in 1..Len(d.rows) |->
                  [c \in d.columns \cup {col_org} |->
                      IF c = col_org THEN extract_org_from_url(d.rows[i][UrlColumn(d)])
                      ELSE d.rows[i][c]]]]

\* df["org"].unique(): the organizations in the order of their first rows
Unique(s) == DropDuplicates([i \in 1..Len(s) |-> <<s[i]>>])
Firsts(tuples) == [i \in 1..Len(tuples) |-> tuples[i][1]]
Orgs(d) == Firsts(Unique([j \in 1..Len(d.rows) |-> d.rows[j][col_org]]))

\* df[df["org"] == org]
Subset(d, org) ==
    [columns |-> d.columns, rows |-> SelectSeq(d.rows, LAMBDA r : CellEq(r[col_org], org))]

\* the merge of one organization's two slices
MergeSection(section, df_old, df_new, metrics) ==
    IF section = "explore" THEN process_explore_section(df_old, df_new, metrics)
    ELSE process_rows_by_key(df_old, df_new,
                             IF section = "insights" THEN col_Insight ELSE col_strategy,
                             col_date_range)

\* one turn of the loop over the organizations: "skip" when both slices are
\* empty, otherwise what the merge produced
OrgTurn(section, d, org, d1, d2, metrics) ==
    LET df_old == filter_by_date(Subset(d, org), d1)
        df_new == filter_by_date(Subset(d, org), d2)
    IN  IF Empty(df_old) /\ Empty(df_new) THEN Failed("skip")
        ELSE MergeSection(section, df_old, df_new, metrics)

\* what a call of process_section produced: the frame it worked on, the
\* results_by_org it returned (in the order the organizations were added), what
\* it printed, and the exception that escaped it
SectionOutcome(exc, d, results, printed) ==
    [exc |-> exc, df |-> d, results |-> results, printed |-> printed]
Diagnostic(event, section) == [event |-> event, section |-> section]

\* the exception the first cell raises on which extract_org_from_url fails, if any
ExtractFails(orgs) ==
    LET bad == {i \in 1..Len(orgs) : orgs[i].k # "str"}
    IN  IF bad = {} THEN "" ELSE orgs[CHOOSE i \in bad : \A j \in bad : i <= j].k

\* the loop over the organizations, from what each of its turns gave: the first
\* exception of a turn escapes; otherwise every organization whose turn gave a
\* non-empty frame is in results_by_org
Gathered(d, orgs, turns) ==
    LET failing == {i \in 1..Len(orgs) : turns[i].exc \notin {"", "skip"}}
        kept == SelectSeq([i \in 1..Len(orgs) |-> i],
                          LAMBDA i : turns[i].exc = "" /\ turns[i].rows # <<>>)
    IN  IF failing # {}
        THEN SectionOutcome(turns[CHOOSE i \in failing : \A j \in failing : i <= j].exc,
                            d, <<>>, <<>>)
        ELSE SectionOutcome("", d,
                 [k \in 1..Len(kept) |->
                     [org |-> orgs[kept[k]].s, frames |-> <<turns[kept[k]].rows>>]],
                 <<>>)

\* process_section from line 195 on, d being the frame with its org column
OrgLoop(section, table, d, d1, d2, metrics) ==
    IF ExtractFails([i \in 1..Len(d.rows) |-> d.rows[i][col_org]]) # ""
    THEN SectionOutcome(ExtractFails([i \in 1..Len(d.rows) |-> d.rows[i][col_org]]),
                        table, <<>>, <<>>)
    ELSE IF FilterFails(d) # "" THEN SectionOutcome(FilterFails(d), d, <<>>, <<>>)
    ELSE Gathered(d, Orgs(d),
                  [i \in 1..Len(Orgs(d)) |->
                      OrgTurn(section, d, Orgs(d)[i], d1, d2, metrics)])

\* a process_section on which a table without a URL column is fatal
process_section_fatal(section, table, d1, d2, metrics) ==
    IF Empty(table)
    THEN SectionOutcome("", table, <<>>, <<Diagnostic("sheet is empty", section)>>)
    ELSE IF UrlColumn(table) = <<>>
    THEN SectionOutcome("KeyError", table, <<>>, <<>>)
    ELSE OrgLoop(section, table, AttachOrg(table), d1, d2, metrics)

process_section(section, table, d1, d2, metrics) ==
    IF Empty(table)
    THEN SectionOutcome("", table, <<>>, <<Diagnostic("sheet is empty", section)>>)
    ELSE IF UrlColumn(table) = <<>>
    THEN SectionOutcome("", table, <<>>, <<Diagnostic("no org_url-like col", section)>>)
    ELSE OrgLoop(section, table, AttachOrg(table), d1, d2, metrics)

----------------------------------------------------------------------------
(* The inputs of the comparator *)

\* stored cells that parse as finite numbers, of ordinary size
NumericCells ==
    { Str(<<"0">>), Str(<<"5">>), Str(<<"-", "5">>), Str(<<"1", ",", "0", "0", "0">>), Str(<<"1", ",", "2", "5", "0">>), Str(<<"4", "5", "%">>), Str(<<"5", "0", "%">>),
      Str(<<"1", "2", ".", "3", "4", "6">>), Str(<<"0", ".", "1", "2", "3">>), PyInt(500) }
\* stored cells that parse as inf or nan
NonFiniteCells == { Str(<<"i", "n", "f">>), Str(<<"-", "i", "n", "f">>), Str(<<"n", "a", "n">>), NaN }
\* stored cells that do not parse
TextCells == { NA, Str(<<>>), Str(<<"1", ".", "2", ".", "3">>), None }
\* cells on either side of the 1e-12 threshold, before or after the division by 100
SmallCells ==
    { Str(<<"0">>), Str(<<"0", ".", "0", "0", "0", "0", "0", "0", "0", "0", "0", "0", "0", "0", "5">>), Str(<<"-", "0", ".", "0", "0", "0", "0", "0", "0", "0", "0", "0", "0", "0", "0", "5">>),
      Str(<<"0", ".", "0", "0", "0", "0", "0", "0", "0", "0", "0", "0", "5">>), Str(<<"0", ".", "0", "0", "0", "0", "0", "2">>) }

RawCells == NumericCells \cup NonFiniteCells \cup TextCells
InputPairs == (RawCells \X RawCells) \cup (SmallCells \X SmallCells)

----------------------------------------------------------------------------
(* The variables of the other operations while one operation is modelled *)

NoDf == [columns |-> {}, rows |-> <<>>]
MergeIdle ==
    /\ old_df = NoDf
    /\ new_df = NoDf
    /\ key_col = <<>>
    /\ out = NoOut
RunIdle ==
    /\ store = <<>>
    /\ date1 = <<>>
    /\ date2 = <<>>
    /\ pc = "idle"
    /\ df = NoDf
    /\ sec_result = <<>>
    /\ all_results = <<>>
    /\ workbook = <<>>
    /\ log = <<>>
CmpIdle ==
    /\ old = None
    /\ new = None
    /\ is_whole = FALSE
    /\ cmp = NotCalled

\* no upload is under way
NoCall ==
    [fn |-> "none", pc |-> "idle", df |-> [columns |-> <<>>, rows |-> <<>>], title |-> <<>>,
     file |-> 0, attempt |-> 0, tries |-> 0, wrote |-> 0, last |-> "", printed |-> <<>>]
UploadIdle ==
    /\ folder = <<>>
    /\ sheet = <<>>
    /\ call = NoCall
    /\ calls = 0

\* no call of a helper function is under way
NoOrg == V("not called", 0, 0, <<>>)
HelperIdle ==
    /\ url_arg = None
    /\ org_ret = NoOrg
    /\ id_args = <<>>
    /\ id = <<>>

----------------------------------------------------------------------------
(* A call of compare_values on any pair of inputs *)

InitCompare ==
    /\ \E p \in InputPairs : old = p[1] /\ new = p[2]
    /\ is_whole \in BOOLEAN
    /\ cmp = NotCalled
    /\ MergeIdle
    /\ RunIdle
    /\ HelperIdle
    /\ UploadIdle

CompareValues ==
    /\ cmp = NotCalled
    /\ cmp' = compare_values(old, new, is_whole)
    /\ UNCHANGED <<old, new, is_whole, mergeVars, runVars, helperVars, uploadVars>>

NextCompare == CompareValues
SpecCompare == InitCompare /\ [][NextCompare]_vars

----------------------------------------------------------------------------
(* A call of process_rows_by_key, as process_section makes it, on any two tables *)

\* rows in the two tables of a merge together
MaxRows == 3

\* the tables of n rows drawn from a set of rows
Tables(cols, rowset, n) == {[columns |-> cols, rows |-> s] : s \in [1..n -> rowset]}

\* an insight in the whole-number set, one outside it, and the name a scraper
\* stores when it could not read one
KeyedMetrics == { Str(<<"T", "o", "t", "a", "l", " ", "p", "u", "b", "l", "i", "c", "a", "t", "i", "o", "n", "s", " ", "(", "i", "n", "s", "i", "g", "h", "t", ")">>), Str(<<"O", "p", "e", "n", " ", "a", "c", "c", "e", "s", "s", " ", "(", "i", "n", "s", "i", "g", "h", "t", ")">>), NA }
KeyedDateRanges == { Str(<<"2", "0", "2", "4">>), NaN }
KeyedValues == { Str(<<"5", "0", "0">>), NA }
KeyedRows(kc, vc) ==
    { (kc :> m) @@ (col_date_range :> d) @@ (vc :> v) :
        m \in KeyedMetrics, d \in KeyedDateRanges, v \in KeyedValues }
KeyedTables(kc, vc, n) == Tables({kc, col_date_range, vc}, KeyedRows(kc, vc), n)

InitKeyed ==
    /\ key_col \in {col_Insight, col_strategy}
    /\ \E vo, vn \in {col_Value, col_value} : \E k, j \in 0..MaxRows :
          /\ k + j <= MaxRows
          /\ old_df \in KeyedTables(key_col, vo, k)
          /\ new_df \in KeyedTables(key_col, vn, j)
    /\ out = NoOut
    /\ CmpIdle
    /\ RunIdle
    /\ HelperIdle
    /\ UploadIdle

\* process_section calls it for the insights and the actions section
ProcessRowsByKey ==
    /\ out = NoOut
    /\ key_col # col_KEY
    /\ out' = process_rows_by_key(old_df, new_df, key_col, col_date_range)
    /\ UNCHANGED <<old_df, new_df, key_col, cmpVars, runVars, helperVars, uploadVars>>

NextKeyed == ProcessRowsByKey
SpecKeyed == InitKeyed /\ [][NextKeyed]_vars

----------------------------------------------------------------------------
(* A call of process_explore_section on any two tables *)

ExploreMetricNames == { <<"P", "U", "B", "L", "I", "C", "A", "T", "I", "O", "N", "S">>, <<"O", "p", "e", "n", " ", "a", "c", "c", "e", "s", "s">> }
ExploreKeys == { Str(<<"2", "0", "2", "4">>), Str(<<"2", "0", "2", "3">>) }
ExploreValues == { Str(<<"1", ",", "0", "0", "0">>), Str(<<"4", "5", "%">>) }
ExploreTime == Str(<<"2", "0", "2", "5", "-", "0", "3", "-", "2", "4", " ", "1", "0", ":", "0", "0", ":", "0", "0">>)
ExploreUrl == Str(<<"h", "t", "t", "p", "s", ":", "/", "/", "d", "e", "v", ".", "o", "a", ".", "r", "e", "p", "o", "r", "t", "/", "g", "a", "t", "e", "s", "-", "f", "o", "u", "n", "d", "a", "t", "i", "o", "n">>)
ExploreRows(ms) ==
    { (col_collection_time :> ExploreTime) @@ (col_org_url :> ExploreUrl)
          @@ (col_KEY :> k) @@ r :
        k \in ExploreKeys, r \in [ms -> ExploreValues] }
ExploreTables(ms, n) == Tables(skip_cols \cup ms, ExploreRows(ms), n)

InitExplore ==
    /\ key_col = col_KEY
    /\ \E mo, mn \in SUBSET ExploreMetricNames : \E k, j \in 0..MaxRows :
          /\ k + j <= MaxRows
          /\ old_df \in ExploreTables(mo, k)
          /\ new_df \in ExploreTables(mn, j)
    /\ out = NoOut
    /\ CmpIdle
    /\ RunIdle
    /\ HelperIdle
    /\ UploadIdle

\* process_section calls it for the explore section
ProcessExploreSection ==
    /\ out = NoOut
    /\ key_col = col_KEY
    /\ \E metrics \in Orderings(MetricColumns(old_df, new_df)) :
          out' = process_explore_section(old_df, new_df, metrics)
    /\ UNCHANGED <<old_df, new_df, key_col, cmpVars, runVars, helperVars, uploadVars>>

NextExplore == ProcessExploreSection
SpecExplore == InitExplore /\ [][NextExplore]_vars

\* a call of either merge function, as process_section chooses between them
InitMerge == InitKeyed \/ InitExplore
NextMerge == ProcessRowsByKey \/ ProcessExploreSection
SpecMerge == InitMerge /\ [][NextMerge]_vars

----------------------------------------------------------------------------
(* main: the section loop, the workbook and its styling *)

Sections == {"insights", "actions", "explore"}
\* for section in ["insights","actions","explore"], then the write and the styling
NextStep(p) ==
    CASE p = "insights" -> "actions"
      [] p = "actions" -> "explore"
      [] p = "explore" -> "write"
      [] p = "write" -> "style"
      [] p = "style" -> "done"

\* load_gsheet_to_df: the records of the section's stored table
load_gsheet_to_df(section) == store[section]

\* all_results[org].extend(df_list) for every org of sec_result; a new org is
\* added after the ones the dict already holds
RECURSIVE Extend(_, _)
Extend(all, res) ==
    IF res = <<>> THEN all
    ELSE LET head == res[1]
             at == {i \in 1..Len(all) : all[i].org = head.org}
             merged == IF at = {} THEN Append(all, head)
                       ELSE [i \in 1..Len(all) |->
                                IF i \in at
                                THEN [org |-> all[i].org, frames |-> all[i].frames \o head.frames]
                                ELSE all[i]]
         IN  Extend(merged, Tail(res))

\* pd.concat(dataframes, ignore_index=True)
RECURSIVE Concat(_)
Concat(frames) == IF frames = <<>> THEN <<>> ELSE frames[1] \o Concat(Tail(frames))

\* the characters in code point order, for the comparison of strings (the
\* quotation mark, the backslash and the grave accent, which no text of the
\* model holds, are place holders)
ASCII ==
    <<" ", "!", "QUOTE", "#", "$", "%", "&", "'", "(", ")", "*", "+", ",", "-", ".", "/",
       "0", "1", "2", "3", "4", "5", "6", "7", "8", "9", ":", ";", "<", "=", ">", "?",
       "@", "A", "B", "C", "D", "E", "F", "G", "H", "I", "J", "K", "L", "M", "N", "O",
       "P", "Q", "R", "S", "T", "U", "V", "W", "X", "Y", "Z", "[", "BACKSLASH", "]", "^", "_",
       "GRAVE", "a", "b", "c", "d", "e", "f", "g", "h", "i", "j", "k", "l", "m", "n", "o",
       "p", "q", "r", "s", "t", "u", "v", "w", "x", "y", "z", "{", "|", "}", "~">>
Ord(c) == 31 + CHOOSE i \in 1..Len(ASCII) : ASCII[i] = c

RECURSIVE StrLess(_, _)
StrLess(a, b) ==
    IF a = <<>> THEN b # <<>>
    ELSE IF b = <<>> THEN FALSE
    ELSE IF a[1] = b[1] THEN StrLess(Tail(a), Tail(b))
    ELSE Ord(a[1]) < Ord(b[1])

\* x < y for two str or two numbers
CellLess(x, y) ==
    IF x.k = "str" THEN StrLess(x.s, y.s)
    ELSE Align(x, Max(x.e, y.e)) < Align(y, Max(x.e, y.e))

\* the columns of the sort hold values that compare with each other: all str,
\* or all numbers (a mix raises TypeError when there is more than one row)
Sortable(rows) ==
    \A i, j \in 1..Len(rows) :
        /\ (rows[i].DATE_RANGE.k = "str") = (rows[j].DATE_RANGE.k = "str")
        /\ (rows[i].METRIC.k = "str") = (rows[j].METRIC.k = "str")

RowLess(r, s) ==
    \/ CellLess(r.DATE_RANGE, s.DATE_RANGE)
    \/ /\ ~CellLess(s.DATE_RANGE, r.DATE_RANGE)
       /\ CellLess(r.METRIC, s.METRIC)

\* sort_values(["DATE_RANGE","METRIC"]): rows of equal keys keep their order
RECURSIVE InsertSorted(_, _)
InsertSorted(s, r) ==
    IF s = <<>> THEN <<r>>
    ELSE IF RowLess(r, s[Len(s)])
    THEN Append(InsertSorted(SubSeq(s, 1, Len(s) - 1), r), s[Len(s)])
    ELSE Append(s, r)
RECURSIVE SortValues(_)
SortValues(rows) ==
    IF rows = <<>> THEN <<>>
    ELSE InsertSorted(SortValues(SubSeq(rows, 1, Len(rows) - 1)), rows[Len(rows)])

\* org[:31]
Take(s, n) == SubSeq(s, 1, IF Len(s) < n THEN Len(s) ELSE n)

\* what to_excel puts in a cell: a missing value as "", an infinity as "inf"
ToExcel(v) ==
    IF isna(v) THEN Str(<<>>)
    ELSE IF v.k = "inf" THEN Str(IF v.m > 0 THEN <<"i", "n", "f">> ELSE <<"-", "i", "n", "f">>)
    ELSE v

\* a row of a sheet: the cells, and the font and fill of the last two
SheetRow(r) ==
    [DATE_RANGE |-> ToExcel(r.DATE_RANGE), METRIC |-> ToExcel(r.METRIC),
     Old |-> ToExcel(r.Old), New |-> ToExcel(r.New),
     Change |-> ToExcel(r.Change), PctChange |-> ToExcel(r.PctChange),
     ChangeFont |-> "default", PctFont |-> "default",
     ChangeFill |-> "none", PctFill |-> "none"]

\* combined.to_excel(writer, sheet_name=name): a new sheet, or, when the writer
\* already holds a sheet of that name, the rows written over its first rows
WriteSheet(wb, name, rows) ==
    IF \E i \in 1..Len(wb) : wb[i].name = name
    THEN [i \in 1..Len(wb) |->
             IF wb[i].name = name
             THEN [name |-> name,
                   rows |-> rows \o SubSeq(wb[i].rows, Len(rows) + 1, Len(wb[i].rows))]
             ELSE wb[i]]
    ELSE Append(wb, [name |-> name, rows |-> rows])

\* the sheet rows of one organization: concatenated, sorted, converted
Combined(dataframes) ==
    LET sorted == SortValues(Concat(dataframes))
    IN  [i \in 1..Len(sorted) |-> SheetRow(sorted[i])]

\* the loop of main over all_results, written into the writer
RECURSIVE WriteAll(_, _)
WriteAll(wb, all) ==
    IF all = <<>> THEN wb
    ELSE WriteAll(WriteSheet(wb, Take(all[1].org, 31), Combined(all[1].frames)), Tail(all))

\* the exception the write loop and writer.close() raise, if any: a sort over
\* values that do not compare, or a workbook left without a sheet
WriteFails(all) ==
    IF \E i \in 1..Len(all) : ~Sortable(Concat(all[i].frames)) THEN "TypeError"
    ELSE IF all = <<>> THEN "IndexError"
    ELSE ""

\* float(pct_cell.value) of apply_styling, on the cell load_workbook gives back
\* (an empty cell is None)
PctFloat(v) ==
    IF v.k = "str" THEN (IF v.s = <<>> THEN ValueError ELSE ParseFloat(v.s))
    ELSE IF v.k = "int" THEN Num(v.m, 0)
    ELSE IF v.k = "none" THEN ValueError
    ELSE v

\* no value taken as zero
Below1e9_never(x) == FALSE

\* abs(pct_val) < 1e-9 and abs(pct_val) >= 1, on a float that parsed
Below1e9(x) == x.k = "num" /\ (IF x.e <= 9 THEN x.m = 0 ELSE Abs(x.m) < Pow10(x.e - 9))
AtLeastOne(x) == x.k = "inf" \/ (x.k = "num" /\ Abs(x.m) >= Pow10(x.e))

StyleRow(r) ==
    LET pct_val == PctFloat(r.PctChange)
        red == pct_val # ValueError /\ Below1e9(pct_val)
        bold == pct_val # ValueError /\ ~red /\ AtLeastOne(pct_val)
    IN  [r EXCEPT !.PctFont = IF red THEN "red" ELSE IF bold THEN "bold" ELSE @,
                  !.ChangeFont = IF bold THEN "bold" ELSE @,
                  !.ChangeFill = "grey",
                  !.PctFill = "grey"]

apply_styling(wb) ==
    [i \in 1..Len(wb) |->
        [name |-> wb[i].name,
         rows |-> [j \in 1..Len(wb[i].rows) |-> StyleRow(wb[i].rows[j])]]]

----------------------------------------------------------------------------
(* A comparison run: the three stored tables, then main step by step *)

\* the rows of the three stored tables together
MaxStoredRows == 2

\* the two dates of the command line
Date1 == <<"2", "0", "2", "5", "-", "0", "3", "-", "2", "4">>
Date2 == <<"2", "0", "2", "5", "-", "0", "3", "-", "2", "5">>
\* collection times on the first date, on the second date, and on another day
StoredTimes ==
    { Str(<<"2", "0", "2", "5", "-", "0", "3", "-", "2", "4", " ", "1", "0", ":", "0", "0", ":", "0", "0">>), Str(<<"2", "0", "2", "5", "-", "0", "3", "-", "2", "5", " ", "1", "0", ":", "0", "0", ":", "0", "0">>), Str(<<"2", "0", "2", "5", "-", "0", "3", "-", "2", "6", " ", "1", "0", ":", "0", "0", ":", "0", "0">>) }
\* report URLs of two organizations, and a cell that is no report URL
StoredUrls ==
    { Str(<<"h", "t", "t", "p", "s", ":", "/", "/", "d", "e", "v", ".", "o", "a", ".", "r", "e", "p", "o", "r", "t", "/", "g", "a", "t", "e", "s", "-", "f", "o", "u", "n", "d", "a", "t", "i", "o", "n", "?", "o", "r", "g", "k", "e", "y", "=", "a", "b", "c">>),
      Str(<<"h", "t", "t", "p", "s", ":", "/", "/", "d", "e", "v", ".", "o", "a", ".", "r", "e", "p", "o", "r", "t", "/", "h", "h", "m", "i", "/">>),
      Str(<<"h", "t", "t", "p", "s", ":", "/", "/", "e", "x", "a", "m", "p", "l", "e", ".", "o", "r", "g", "/", "h", "h", "m", "i">>) }

\* the URL columns a stored table may carry
UrlColumnChoices(section) ==
    IF section = "explore" THEN {{col_org_url}, {col_Page_URL}, {}}
    ELSE IF section = "actions" THEN {{col_Original_URL}, {}}
    ELSE {{col_org_url}, {}}

\* what a stored row holds besides its URL and its collection time
col_PUBLICATIONS == <<"P", "U", "B", "L", "I", "C", "A", "T", "I", "O", "N", "S">>
Payload(section) ==
    CASE section = "insights" ->
             (col_Insight :> Str(<<"O", "p", "e", "n", " ", "a", "c", "c", "e", "s", "s", " ", "(", "i", "n", "s", "i", "g", "h", "t", ")">>)) @@ (col_date_range :> Str(<<"2", "0", "2", "4">>))
                 @@ (col_value :> Str(<<"4", "5", "%">>))
      [] section = "actions" ->
             (col_strategy :> Str(<<"E", "m", "a", "i", "l", " ", "a", "u", "t", "h", "o", "r", " ", "(", "a", "c", "t", "i", "o", "n", ")">>)) @@ (col_date_range :> Str(<<"2", "0", "2", "4">>))
                 @@ (col_Value :> Str(<<"5", "0", "0">>))
      [] section = "explore" ->
             (col_KEY :> Str(<<"2", "0", "2", "4">>)) @@ (col_PUBLICATIONS :> Str(<<"1", ",", "0", "0", "0">>))

StoredRows(section, urlcols) ==
    { (col_collection_time :> tm) @@ [c \in urlcols |-> u] @@ Payload(section) :
        tm \in StoredTimes, u \in StoredUrls }
StoredTables(section, n) ==
    UNION { Tables({col_collection_time} \cup urlcols \cup DOMAIN Payload(section),
                   StoredRows(section, urlcols), n) :
            urlcols \in UrlColumnChoices(section) }

\* the orders list(set(...)) may give the metric columns of the section's frame
MetricOrders(section, table) ==
    IF section = "explore" /\ ~Empty(table) /\ UrlColumn(table) # <<>>
    THEN Orderings(MetricColumns(AttachOrg(table), AttachOrg(table)))
    ELSE {<<>>}

InitRun ==
    /\ \E a, b, c \in 0..MaxStoredRows :
          /\ a + b + c <= MaxStoredRows
          /\ \E ti \in StoredTables("insights", a), ta \in StoredTables("actions", b),
                te \in StoredTables("explore", c) :
                store = [s \in Sections |->
                            IF s = "insights" THEN ti ELSE IF s = "actions" THEN ta ELSE te]
    /\ date1 = Date1
    /\ date2 = Date2
    /\ pc = "insights"
    /\ df = NoDf
    /\ sec_result = <<>>
    /\ all_results = <<>>
    /\ workbook = <<>>
    /\ log = <<>>
    /\ CmpIdle
    /\ MergeIdle
    /\ HelperIdle
    /\ UploadIdle

\* one turn of the loop of main over the sections: the table is loaded,
\* process_section runs on it, and its results are added to all_results; an
\* exception that escapes process_section ends the run
MainSection ==
    /\ pc \in Sections
    /\ \E metrics \in MetricOrders(pc, load_gsheet_to_df(pc)) :
          \E r \in {process_section(pc, load_gsheet_to_df(pc), date1, date2, metrics)} :
              /\ df' = r.df
              /\ IF r.exc = ""
                 THEN /\ sec_result' = r.results
                      /\ all_results' = Extend(all_results, r.results)
                      /\ log' = log \o <<Diagnostic("processing", pc)>> \o r.printed
                      /\ pc' = NextStep(pc)
                 ELSE /\ log' = log \o <<Diagnostic("processing", pc), Diagnostic(r.exc, pc)>>
                      /\ pc' = "aborted"
                      /\ UNCHANGED <<sec_result, all_results>>
    /\ UNCHANGED <<store, date1, date2, workbook, cmpVars, mergeVars, helperVars, uploadVars>>

\* the loop of main over the organizations, and writer.close()
MainWrite ==
    /\ pc = "write"
    /\ IF WriteFails(all_results) = ""
       THEN /\ workbook' = WriteAll(<<>>, all_results)
            /\ pc' = NextStep(pc)
            /\ log' = log
       ELSE /\ workbook' = workbook
            /\ pc' = "aborted"
            /\ log' = Append(log, Diagnostic(WriteFails(all_results), "write"))
    /\ UNCHANGED <<store, date1, date2, df, sec_result, all_results, cmpVars, mergeVars, helperVars, uploadVars>>

\* load_workbook, apply_styling, wb.save and the closing message
MainStyle ==
    /\ pc = "style"
    /\ workbook' = apply_styling(workbook)
    /\ log' = Append(log, Diagnostic("saved", "style"))
    /\ pc' = NextStep(pc)
    /\ UNCHANGED <<store, date1, date2, df, sec_result, all_results, cmpVars, mergeVars, helperVars, uploadVars>>

NextRun == MainSection \/ MainWrite \/ MainStyle
SpecRun == InitRun /\ [][NextRun]_vars

----------------------------------------------------------------------------
(* A comparison run on an insights table of any organizations, date ranges   *)
(* and values, the other two tables being empty: what reaches the sheets     *)

\* the rows of the stored insights table
MaxSheetRows == 2

\* an organization of a short name and two whose names differ after 31 characters
SheetUrls ==
    { Str(<<"h", "t", "t", "p", "s", ":", "/", "/", "d", "e", "v", ".", "o", "a", ".", "r", "e", "p", "o", "r", "t", "/", "h", "h", "m", "i">>),
      Str(<<"h", "t", "t", "p", "s", ":", "/", "/", "d", "e", "v", ".", "o", "a", ".", "r", "e", "p", "o", "r", "t", "/", "m", "a", "x", "-", "p", "l", "a", "n", "c", "k", "-", "i", "n", "s", "t", "i", "t", "u", "t", "e", "-", "f", "o", "r", "-", "t", "h", "e", "-", "s", "c", "i", "e", "n", "c", "e", "-", "o", "f", "-", "l", "i", "g", "h", "t">>),
      Str(<<"h", "t", "t", "p", "s", ":", "/", "/", "d", "e", "v", ".", "o", "a", ".", "r", "e", "p", "o", "r", "t", "/", "m", "a", "x", "-", "p", "l", "a", "n", "c", "k", "-", "i", "n", "s", "t", "i", "t", "u", "t", "e", "-", "f", "o", "r", "-", "t", "h", "e", "-", "s", "c", "i", "e", "n", "c", "e", "-", "o", "f", "-", "h", "u", "m", "a", "n", "-", "h", "i", "s", "t", "o", "r", "y">>) }
SheetTimes == { Str(<<"2", "0", "2", "5", "-", "0", "3", "-", "2", "4", " ", "1", "0", ":", "0", "0", ":", "0", "0">>), Str(<<"2", "0", "2", "5", "-", "0", "3", "-", "2", "5", " ", "1", "0", ":", "0", "0", ":", "0", "0">>) }
\* a date range, and a cell left empty
SheetDateRanges == { Str(<<"P", "a", "s", "t", " ", "1", "2", " ", "m", "o", "n", "t", "h", "s">>), NaN }
SheetValues == { Str(<<"1", ",", "0", "0", "0">>), Str(<<"1", ",", "0", "0", "5">>), Str(<<"2", ",", "0", "0", "0">>), Str(<<"i", "n", "f">>) }
SheetMetric == Str(<<"T", "o", "t", "a", "l", " ", "p", "u", "b", "l", "i", "c", "a", "t", "i", "o", "n", "s", " ", "(", "i", "n", "s", "i", "g", "h", "t", ")">>)
SheetRows ==
    { (col_collection_time :> tm) @@ (col_org_url :> u) @@ (col_Insight :> SheetMetric)
          @@ (col_date_range :> dr) @@ (col_value :> v) :
        tm \in SheetTimes, u \in SheetUrls, dr \in SheetDateRanges, v \in SheetValues }
SheetColumns == {col_collection_time, col_org_url, col_Insight, col_date_range, col_value}

InitSheets ==
    /\ \E n \in 0..MaxSheetRows : \E ti \in Tables(SheetColumns, SheetRows, n) :
          store = [s \in Sections |->
                      IF s = "insights" THEN ti
                      ELSE [columns |-> {col_collection_time, col_org_url} \cup DOMAIN Payload(s),
                            rows |-> <<>>]]
    /\ date1 = Date1
    /\ date2 = Date2
    /\ pc = "insights"
    /\ df = NoDf
    /\ sec_result = <<>>
    /\ all_results = <<>>
    /\ workbook = <<>>
    /\ log = <<>>
    /\ CmpIdle
    /\ MergeIdle
    /\ HelperIdle
    /\ UploadIdle

SpecSheets == InitSheets /\ [][NextRun]_vars

----------------------------------------------------------------------------
(* export/google_sheets.py: upload_df_to_daily_gsheet_named and              *)
(* upload_df_to_gsheet, against a Drive folder and a worksheet               *)

\* retries=3, the default of both functions
retries == 3

\* s.lower()
LowerChar(c) == IF \E i \in 34..59 : ASCII[i] = c THEN ASCII[Ord(c) + 1] ELSE c
Lower(s) == [i \in 1..Len(s) |-> LowerChar(s[i])]
\* f"{env_tag}_{section}_parsed_data__{date_str}", after strip().lower() of the two tags
Title(env_tag, section, date_str) ==
    Lower(StripChar(env_tag, " ")) \o <<"_">> \o Lower(StripChar(section, " "))
        \o <<"_", "p", "a", "r", "s", "e", "d", "_", "d", "a", "t", "a", "_", "_">> \o date_str

\* df.columns.tolist(), as the cells of a header row
HeaderRow(d) == [j \in 1..Len(d.columns) |-> Str(d.columns[j])]
\* [df.columns.tolist()] + df.astype(str).values.tolist()
DailyValues(d) ==
    <<HeaderRow(d)>>
        \o [i \in 1..Len(d.rows) |-> [j \in 1..Len(d.rows[i]) |-> Str(PyStr(d.rows[i][j]))]]
\* df.values.tolist()
DataRows(d) == d.rows

\* lines 120-127: the folder after every file of the title is deleted
DeleteTitle(files, title) == SelectSeq(files, LAMBDA f : f.title # title)
\* the id Drive gives a new file: one no file of the folder has
NewId(files) ==
    CHOOSE n \in 1..(Len(files) + 1) :
        /\ \A f \in 1..Len(files) : files[f].id # n
        /\ \A m \in 1..(n - 1) : \E f \in 1..Len(files) : files[f].id = m
\* gc.create(title, folder_id): a new, empty spreadsheet in the folder
Create(files, id_, title) == Append(files, [id |-> id_, title |-> title, values |-> <<>>])
\* ws.update("A1", values) on the file of the id
Update(files, id_, values) ==
    [f \in 1..Len(files) |->
        IF files[f].id = id_ THEN [files[f] EXCEPT !.values = values] ELSE files[f]]

\* one turn of "for attempt in range(retries)" of either function, the write
\* call ending in the given way: a success leaves the loop, a quota error goes
\* to the next turn or, after the last one, past the loop, any other error is
\* raised
WriteAttempt_again(c, outcome) ==
    [c EXCEPT !.tries = @ + 1,
              !.attempt = @ + 1,
              !.last = outcome,
              !.wrote = IF outcome = "ok" THEN @ + 1 ELSE @,
              !.pc = IF outcome = "other" THEN "raised"
                     ELSE IF c.attempt + 1 < retries THEN @ ELSE "returned"]
WriteAttempt(c, outcome) ==
    CASE outcome = "ok" ->
             [c EXCEPT !.tries = @ + 1, !.wrote = @ + 1, !.last = "ok", !.pc = "returned",
                       !.printed = Append(@, "written")]
      [] outcome = "quota" ->
             [c EXCEPT !.tries = @ + 1, !.attempt = @ + 1, !.last = "quota",
                       !.pc = IF c.attempt + 1 < retries THEN @ ELSE "returned",
                       !.printed = IF c.attempt + 1 < retries \/ c.fn = "daily"
                                   THEN Append(@, "rate limit")
                                   ELSE @ \o <<"rate limit", "failed after attempts">>]
      [] outcome = "other" ->
             [c EXCEPT !.tries = @ + 1, !.last = "other", !.pc = "raised"]
Outcomes == {"ok", "quota", "other"}

\* the upload calls of a model run
MaxCalls == 2

\* the data frames uploaded, the tags they are uploaded under, the day
UploadColumns == <<<<"f", "i", "g", "u", "r", "e">>, <<"v", "a", "l", "u", "e">>>>
UploadFrames ==
    { [columns |-> UploadColumns, rows |-> <<<<Str(<<"O", "p", "e", "n", " ", "a", "c", "c", "e", "s", "s">>), PyInt(45)>>>>],
      [columns |-> UploadColumns,
       rows |-> <<<<Str(<<"O", "p", "e", "n", " ", "a", "c", "c", "e", "s", "s">>), PyInt(50)>>, <<Str(<<"W", "i", "t", "h", " ", "d", "a", "t", "a">>), NaN>>>>] }
EnvTags == { <<"a", "p", "i">>, <<" ", "A", "P", "I">> }
UploadSection == <<"i", "n", "s", "i", "g", "h", "t", "s">>
UploadDate == <<"2", "0", "2", "5", "-", "0", "3", "-", "2", "4">>
Yesterday == <<"2", "0", "2", "5", "-", "0", "3", "-", "2", "3">>
\* what the folder holds before the first call: nothing, the file of the day
\* before, or a file of the same day
StoredFrame == CHOOSE d \in UploadFrames : Len(d.rows) = 1
InitialFolders ==
    { <<>>,
      <<[id |-> 1, title |-> Title(<<"a", "p", "i">>, UploadSection, Yesterday),
         values |-> DailyValues(StoredFrame)]>>,
      <<[id |-> 1, title |-> Title(<<"a", "p", "i">>, UploadSection, UploadDate),
         values |-> DailyValues(StoredFrame)]>> }
\* what the worksheet holds before the first call: nothing, the header of the
\* frames, or another header
InitialSheets ==
    { <<>>, <<HeaderRow(StoredFrame)>>, <<<<Str(<<"f", "i", "g", "u", "r", "e">>), Str(<<"r", "a", "n", "g", "e">>)>>>> }

InitUpload ==
    /\ folder \in InitialFolders
    /\ sheet \in InitialSheets
    /\ call = NoCall
    /\ calls = 0
    /\ CmpIdle
    /\ MergeIdle
    /\ RunIdle
    /\ HelperIdle

\* no call is under way and another one may begin
MayCall == call.pc \in {"idle", "returned", "raised"} /\ calls < MaxCalls

\* upload_df_to_daily_gsheet_named, lines 101-127: the title, and the deletion
\* of every file of that title in the folder
DailyDelete ==
    /\ MayCall
    /\ \E d \in UploadFrames, env_tag \in EnvTags :
          /\ folder' = DeleteTitle(folder, Title(env_tag, UploadSection, UploadDate))
          /\ call' = [NoCall EXCEPT !.fn = "daily", !.pc = "create", !.df = d,
                                    !.title = Title(env_tag, UploadSection, UploadDate)]
    /\ calls' = calls + 1
    /\ UNCHANGED <<sheet, cmpVars, mergeVars, runVars, helperVars>>

\* lines 130-131: the new spreadsheet
DailyCreate ==
    /\ call.fn = "daily" /\ call.pc = "create"
    /\ folder' = Create(folder, NewId(folder), call.title)
    /\ call' = [call EXCEPT !.file = NewId(folder), !.pc = "update"]
    /\ UNCHANGED <<sheet, calls, cmpVars, mergeVars, runVars, helperVars>>

\* lines 134-145: one attempt of ws.update
DailyUpdate ==
    /\ call.fn = "daily" /\ call.pc = "update"
    /\ \E outcome \in Outcomes :
          /\ call' = WriteAttempt(call, outcome)
          /\ folder' = IF outcome = "ok" THEN Update(folder, call.file, DailyValues(call.df))
                       ELSE folder
    /\ UNCHANGED <<sheet, calls, cmpVars, mergeVars, runVars, helperVars>>

\* upload_df_to_gsheet, lines 19-37: the header is written on an empty sheet, and
\* a sheet of another header ends the call
AppendOpen ==
    /\ MayCall
    /\ \E d \in UploadFrames :
          IF sheet = <<>>
          THEN /\ sheet' = <<HeaderRow(d)>>
               /\ call' = [NoCall EXCEPT !.fn = "append", !.pc = "append", !.df = d]
          ELSE IF sheet[1] # HeaderRow(d)
          THEN /\ sheet' = sheet
               /\ call' = [NoCall EXCEPT !.fn = "append", !.pc = "returned", !.df = d,
                                         !.printed = <<"headers do not match">>]
          ELSE /\ sheet' = sheet
               /\ call' = [NoCall EXCEPT !.fn = "append", !.pc = "append", !.df = d]
    /\ calls' = calls + 1
    /\ UNCHANGED <<folder, cmpVars, mergeVars, runVars, helperVars>>

\* lines 40-52: one attempt of worksheet.append_rows
AppendRows ==
    /\ call.fn = "append" /\ call.pc = "append"
    /\ \E outcome \in Outcomes :
          /\ call' = WriteAttempt(call, outcome)
          /\ sheet' = IF outcome = "ok" THEN sheet \o DataRows(call.df) ELSE sheet
    /\ UNCHANGED <<folder, calls, cmpVars, mergeVars, runVars, helperVars>>

NextUpload == DailyDelete \/ DailyCreate \/ DailyUpdate \/ AppendOpen \/ AppendRows
SpecUpload == InitUpload /\ [][NextUpload]_vars

----------------------------------------------------------------------------
(* extractors/utils.py: make_id and the functions it is built from *)

\* (s or ""): the text of a string, the empty text for None
Text(v) == IF v.k = "str" THEN v.s ELSE <<>>
\* the long dashes stand in the text as one character each
EMDASH == "EMDASH"
ENDASH == "ENDASH"
LowerLetters == {ASCII[i] : i \in 66..91}
\* re.sub(r"[^a-z0-9\- ]+", "", s)
KeepSlugChars(s) == SelectSeq(s, LAMBDA c : c \in LowerLetters \cup Digits \cup {"-", " "})
\* every run of the character c becomes one r: re.sub(r"\s+", "-", s) and
\* re.sub(r"-{2,}", "-", s)
RECURSIVE Squeeze(_, _, _)
Squeeze(s, c, r) ==
    IF s = <<>> THEN <<>>
    ELSE IF s[1] # c THEN <<s[1]>> \o Squeeze(Tail(s), c, r)
    ELSE IF Len(s) > 1 /\ s[2] = c THEN Squeeze(Tail(s), c, r)
    ELSE <<r>> \o Squeeze(Tail(s), c, r)
\* s.replace(EMDASH, "-").replace(ENDASH, "-")
ReplaceDashes(s) == [i \in 1..Len(s) |-> IF s[i] \in {EMDASH, ENDASH} THEN "-" ELSE s[i]]

_slugify(s) ==
    StripChar(
        Squeeze(Squeeze(KeepSlugChars(ReplaceDashes(Lower(StripChar(Text(s), " ")))), " ", "-"),
                "-", "-"),
        "-")

\* the text without the white space at its end
RStrip(s) ==
    LET ink == {i \in 1..Len(s) : s[i] # " "}
    IN  IF ink = {} THEN <<>> ELSE SubSeq(s, 1, CHOOSE i \in ink : \A j \in ink : j <= i)
\* where r"\(([^)]*)\)\s*$" matches in the text: the position of its opening
\* parenthesis, or 0 when the text does not end in a parenthesised part. The
\* part holds no closing parenthesis, and the search takes the leftmost match.
ParenAt(s) ==
    LET t == RStrip(s)
        closed == {i \in 1..(Len(t) - 1) : t[i] = ")"}
        q == IF closed = {} THEN 0 ELSE CHOOSE i \in closed : \A j \in closed : j <= i
        opens == {i \in (q + 1)..(Len(t) - 1) : t[i] = "("}
    IN  IF t = <<>> \/ t[Len(t)] # ")" \/ opens = {} THEN 0
        ELSE CHOOSE i \in opens : \A j \in opens : i <= j
\* m.group(1)
Inside(s) == SubSeq(RStrip(s), ParenAt(s) + 1, Len(RStrip(s)) - 1)

insights == <<"i", "n", "s", "i", "g", "h", "t", "s">>
actions == <<"a", "c", "t", "i", "o", "n", "s">>
explore == <<"e", "x", "p", "l", "o", "r", "e">>
_section_key(section, figure) ==
    LET inside == _slugify(Str(Inside(Text(figure))))
    IN  IF ParenAt(Text(figure)) # 0 /\ inside \in {<<"i", "n", "s", "i", "g", "h", "t">>, insights} THEN insights
        ELSE IF ParenAt(Text(figure)) # 0 /\ inside \in {<<"a", "c", "t", "i", "o", "n">>, actions} THEN actions
        ELSE IF ParenAt(Text(figure)) # 0 /\ StartsWith(inside, explore) THEN inside
        ELSE Lower(StripChar(Text(section), " "))

\* what ORG_RE lets stand before the organization, in lower case
OrgPrefixes ==
    {scheme \o <<":", "/", "/">> \o env \o <<"o", "a", ".", "r", "e", "p", "o", "r", "t", "/">> :
        scheme \in {<<"h", "t", "t", "p">>, <<"h", "t", "t", "p", "s">>},
        env \in {<<>>, <<"d", "e", "v", ".">>, <<"s", "t", "a", "g", "i", "n", "g", ".">>, <<"m", "i", "g", "r", "a", "t", "i", "o", "n", ".">>}}
\* the pattern stands at position i of the text, whatever the case of the
\* letters, with at least one character of the organization after it
PrefixAt(s, i, p) ==
    /\ i + Len(p) <= Len(s)
    /\ Lower(SubSeq(s, i, i + Len(p) - 1)) = p
    /\ s[i + Len(p)] \notin {"/", "?", "#"}
\* the longest run of characters other than "/", "?" and "#" from position j
RunFrom(s, j) ==
    LET stops == {i \in j..Len(s) : s[i] \in {"/", "?", "#"}}
    IN  SubSeq(s, j, IF stops = {} THEN Len(s)
                     ELSE (CHOOSE i \in stops : \A k \in stops : i <= k) - 1)
\* (ORG_RE.search(url or "") or [None, ""])[1]
ORG_RE(s) ==
    LET found == {m \in (1..Len(s)) \X OrgPrefixes : PrefixAt(s, m[1], m[2])}
        first == CHOOSE m \in found : \A n \in found : m[1] <= n[1]
    IN  IF found = {} THEN <<>> ELSE RunFrom(s, first[1] + Len(first[2]))

\* re.sub(r"\s*\([^)]*\)\s*$", "", figure or "").strip()
base_fig(figure) ==
    StripChar(IF ParenAt(Text(figure)) = 0 THEN Text(figure)
              ELSE SubSeq(Text(figure), 1, ParenAt(Text(figure)) - 1), " ")
\* ORG_RE's organization, in lower case
Org(url) == Lower(ORG_RE(Text(url)))

make_id(date_range, figure, section, url) ==
    _slugify(date_range) \o <<"_">> \o _slugify(Str(base_fig(figure))) \o <<"_">>
        \o _section_key(section, figure) \o <<"_">> \o Org(url)

----------------------------------------------------------------------------
(* A call of make_id on the fields of any parsed row *)

IdRanges == { Str(<<"2", "0", "2", "5">>), Str(<<"A", "l", "l", " ", "t", "i", "m", "e">>), Str(<<" ", "P", "a", "s", "t", " ", "1", "2", " ", "m", "o", "n", "t", "h", "s", " ">>),
              Str(<<"2", "0", "2", "0">> \o <<EMDASH>> \o <<"2", "0", "2", "4">>), None }
IdFigures ==
    { Str(<<"O", "p", "e", "n", " ", "a", "c", "c", "e", "s", "s", " ", "(", "i", "n", "s", "i", "g", "h", "t", ")">>), Str(<<"W", "i", "t", "h", " ", "d", "a", "t", "a", " ", " ", "(", "A", "c", "t", "i", "o", "n", "s", ")", " ">>),
      Str(<<"P", "r", "e", "p", "r", "i", "n", "t", "s", " ", "(", "E", "x", "p", "l", "o", "r", "e", " ">> \o <<ENDASH>> \o <<" ", "P", "r", "e", "p", "r", "i", "n", "t", "s", ")">>),
      Str(<<"A", "P", "C", "_", "c", "o", "s", "t", ",", " ", "t", "o", "t", "a", "l">>), Str(<<"S", "h", "a", "r", "e", " ", "(", "o", "f", " ", "t", "o", "t", "a", "l", ")", " ", "(", "o", "t", "h", "e", "r", ")">>), None }
IdSections == { Str(insights), Str(actions), Str(<<" ", "E", "x", "p", "l", "o", "r", "e">>),
                Str(<<"e", "x", "p", "l", "o", "r", "e", "_", "p", "r", "e", "p", "r", "i", "n", "t", "s">>), None }
IdUrls ==
    { Str(<<"h", "t", "t", "p", "s", ":", "/", "/", "o", "a", ".", "r", "e", "p", "o", "r", "t", "/", "h", "h", "m", "i">>), Str(<<"h", "t", "t", "p", "s", ":", "/", "/", "d", "e", "v", ".", "o", "a", ".", "r", "e", "p", "o", "r", "t", "/", "g", "a", "t", "e", "s", "-", "f", "o", "u", "n", "d", "a", "t", "i", "o", "n", "?", "o", "r", "g", "k", "e", "y", "=", "a", "b", "c">>),
      Str(<<"H", "T", "T", "P", ":", "/", "/", "S", "t", "a", "g", "i", "n", "g", ".", "O", "A", ".", "R", "e", "p", "o", "r", "t", "/", "H", "H", "M", "I", "/", "o", "r", "c", "i", "d">>), Str(<<"h", "t", "t", "p", "s", ":", "/", "/", "o", "a", ".", "r", "e", "p", "o", "r", "t", "/", "m", "y", "_", "o", "r", "g", "#", "t", "o", "p">>),
      Str(<<"h", "t", "t", "p", "s", ":", "/", "/", "e", "x", "a", "m", "p", "l", "e", ".", "o", "r", "g", "/", "h", "h", "m", "i">>), None }

\* make_id has not been called
NoId == <<"not called">>

InitMakeId ==
    /\ id_args \in [date_range : IdRanges, figure : IdFigures, section : IdSections, url : IdUrls]
    /\ id = NoId
    /\ url_arg = None
    /\ org_ret = NoOrg
    /\ CmpIdle
    /\ MergeIdle
    /\ RunIdle
    /\ UploadIdle

MakeId ==
    /\ id = NoId
    /\ id' = make_id(id_args.date_range, id_args.figure, id_args.section, id_args.url)
    /\ UNCHANGED <<id_args, url_arg, org_ret, cmpVars, mergeVars, runVars, uploadVars>>

NextMakeId == MakeId
SpecMakeId == InitMakeId /\ [][NextMakeId]_vars

----------------------------------------------------------------------------
(* A call of extract_org_from_url on any dashboard URL *)

\* dashboard URLs: https://{env}.oa.report/{seg1}[/{more segments}][?query]
UrlEnvs == { <<"d", "e", "v">>, <<"s", "t", "a", "g", "i", "n", "g">> }
UrlSlugs == { <<"g", "a", "t", "e", "s", "-", "f", "o", "u", "n", "d", "a", "t", "i", "o", "n">>, <<"h", "h", "m", "i">>, <<"b", "m", "g", "f">> }
UrlTails == { <<>>, <<"/">>, <<"/", "o", "r", "c", "i", "d">>, <<"/", "o", "r", "c", "i", "d", "/">>, <<"/", "d", "a", "t", "a", "/", "2", "0", "2", "4">> }
UrlQueries == { <<>>, <<"?">>, <<"?", "o", "r", "g", "k", "e", "y", "=", "a", "b", "c">>, <<"?", "n", "e", "x", "t", "=", "/", "h", "h", "m", "i">> }
DashboardUrls ==
    { Str(<<"h", "t", "t", "p", "s", ":", "/", "/">> \o env \o <<".", "o", "a", ".", "r", "e", "p", "o", "r", "t", "/">> \o slug \o tail \o query) :
        env \in UrlEnvs, slug \in UrlSlugs, tail \in UrlTails, query \in UrlQueries }

InitExtract ==
    /\ url_arg \in DashboardUrls
    /\ org_ret = NoOrg
    /\ id_args = <<>>
    /\ id = <<>>
    /\ CmpIdle
    /\ MergeIdle
    /\ RunIdle
    /\ UploadIdle

ExtractOrg ==
    /\ org_ret = NoOrg
    /\ org_ret' = extract_org_from_url(url_arg)
    /\ UNCHANGED <<url_arg, id_args, id, cmpVars, mergeVars, runVars, uploadVars>>

NextExtract == ExtractOrg
SpecExtract == InitExtract /\ [][NextExtract]_vars

----------------------------------------------------------------------------
(* What the claims about compare_values speak of *)

Called == cmp.exc # "not called"
\* the input parses (float() does not raise); it parses as a finite number
Numeric(x) == ToFloat(x) # ValueError
Finite(x) == ToFloat(x).k = "num"
\* old == new on the raw inputs (a NaN is equal to nothing)
RawEqual == old = new /\ old.k # "nan"
\* the parsed value under the unit policy: divided by 100 unless whole
Scaled(x) == LET f == ToFloat(x) IN IF is_whole \/ f.k # "num" THEN f ELSE Num(f.m, f.e + 2)
\* the float difference a - b
Minus(a, b) ==
    IF a.k = "num" /\ b.k = "num"
    THEN Num(Align(a, Max(a.e, b.e)) - Align(b, Max(a.e, b.e)), Max(a.e, b.e))
    ELSE IF a.k = "nan" \/ b.k = "nan" \/ (a.k = "inf" /\ b.k = "inf" /\ a.m = b.m) THEN NaN
    ELSE IF a.k = "inf" THEN a
    ELSE Inf(-b.m)
\* new_val - old_val
ExactDelta == Minus(Scaled(new), Scaled(old))
IsZero(x) == x.k = "num" /\ x.m = 0
\* within 1e-12 of zero
Within1e12(x) ==
    /\ x.k = "num"
    /\ (x.e <= 12 => x.m = 0)
    /\ (x.e > 12 => Abs(x.m) < Pow10(x.e - 12))
\* two floats are the same number
SameValue(a, b) ==
    IF a.k = "num" /\ b.k = "num"
    THEN Align(a, Max(a.e, b.e)) = Align(b, Max(a.e, b.e))
    ELSE a = b
\* r is x given with nd decimals, no further from x than half a unit of the last one
RoundedTo(r, x, nd) ==
    /\ r.k = "num"
    /\ r.e = nd
    /\ IF x.e <= nd THEN SameValue(r, x)
       ELSE IF x.e - nd > 9 THEN r.m = 0
       ELSE 2 * Abs(r.m * Pow10(x.e - nd) - x.m) <= Pow10(x.e - nd)
\* p is (delta / old_val) * 100 exactly (exact = TRUE), or given with 2 decimals
\* and no further from it than half a unit of the last one
IsPct(p, delta, old_val, exact) ==
    LET e == Max(delta.e, old_val.e)
        n == Align(delta, e)
        d == Align(old_val, e)
        q == LongDiv(Abs(n), Abs(d), 4)
    IN  /\ p.k = "num"
        /\ p.e = 2
        /\ IF exact THEN q[2] = 0 /\ p.m = Sign(n) * Sign(d) * q[1]
           ELSE \/ Abs(p.m) = q[1] /\ 2 * q[2] <= Abs(d)
                \/ Abs(p.m) = q[1] + 1 /\ 2 * q[2] >= Abs(d)
        /\ (p.m # 0 => Sign(p.m) = Sign(n) * Sign(d))

C2_NeverRaises ==
    Called =>
        /\ cmp.exc = ""
        /\ (~Numeric(old) \/ ~Numeric(new) =>
                /\ cmp.delta = NA
                /\ cmp.pct = NA
                /\ cmp.newv = (IF new.k \in {"none", "nan"} THEN NA ELSE new)
                /\ cmp.oldv = (IF old.k \in {"none", "nan"} THEN NA ELSE old))

\* a call where one side is null and the other does not parse
C2_Witness ==
    /\ Called /\ ~Numeric(new) /\ old.k = "nan"
    /\ cmp.oldv = NA /\ cmp.newv = new /\ new # NA

\* the returned new value under the other unit policy
OtherNew == compare_values(old, new, ~is_whole).newv
NewWhole == IF is_whole THEN cmp.newv ELSE OtherNew
NewFraction == IF is_whole THEN OtherNew ELSE cmp.newv

\* C3 as stated: for numeric inputs, the new value returned with is_whole=True
\* is 100 times the new value returned with is_whole=False.
C3_AsStated ==
    Called /\ Numeric(old) /\ Numeric(new) =>
        SameValue(NewWhole, IF NewFraction.k = "num"
                            THEN Num(NewFraction.m, NewFraction.e - 2) ELSE NewFraction)

\* C3 as amended: for finite numeric inputs the two returned new values, each
\* rounded to 4 decimals on its own scale, satisfy
\* |new(True) - 100 * new(False)| <= 0.005, and new(True) == 100 * new(False)
\* when the raw new value has at most 2 decimals.
C3_Amended ==
    Called /\ Finite(old) /\ Finite(new) =>
        /\ NewWhole.k = "num" /\ NewFraction.k = "num"
        /\ NewWhole.e = 4 /\ NewFraction.e = 4
        /\ Abs(NewWhole.m - 100 * NewFraction.m) <= 50
        /\ (ToFloat(new).e <= 2 => NewWhole.m = 100 * NewFraction.m)

\* a call on a percentage with at most 2 decimals, stored as a fraction
C3_Witness ==
    /\ Called /\ Finite(old) /\ Finite(new) /\ ~is_whole
    /\ ToFloat(new).e <= 2
    /\ cmp.newv.k = "num" /\ cmp.newv.m # 0

----------------------------------------------------------------------------
(* What the claims about the merges speak of *)

Merged == out.exc # "not called"
\* a key as a result row shows it
Shown(x) == IF x.k \in {"none", "nan"} THEN NA ELSE x
\* the (key, date_range) pairs of a table of a keyed merge
PairsOf(d) == {<<d.rows[i][key_col], d.rows[i][col_date_range]>> : i \in 1..Len(d.rows)}
AllPairs == PairsOf(old_df) \cup PairsOf(new_df)
\* the result rows that show a pair
RowsShowing(p) ==
    {i \in 1..Len(out.rows) :
        out.rows[i].METRIC = Shown(p[1]) /\ out.rows[i].DATE_RANGE = Shown(p[2])}
NullKey(p) == p[1].k \in {"none", "nan"} \/ p[2].k \in {"none", "nan"}
\* the stored value of a row, under either name of the value column
StoredValue(r) == IF col_Value \in DOMAIN r THEN r[col_Value] ELSE r[col_value]
\* the stored value of the first row of a pair in a table
FirstStored(d, p) ==
    LET at == {i \in 1..Len(d.rows) : <<d.rows[i][key_col], d.rows[i][col_date_range]>> = p}
    IN  StoredValue(d.rows[CHOOSE i \in at : \A j \in at : i <= j])
OneRowPerPair ==
    /\ out.exc = ""
    /\ Len(out.rows) = Cardinality(AllPairs)
    /\ \A p \in AllPairs :
          Cardinality(RowsShowing(p)) = Cardinality({q \in AllPairs : Shown(q[1]) = Shown(p[1])
                                                                     /\ Shown(q[2]) = Shown(p[2])})

\* C4 as stated: one result row for every distinct (key, date_range) pair of
\* either table and no others; a pair only in the new table has Old == "N/A" and
\* New != "N/A", a pair only in the old table New == "N/A" and Old != "N/A".
C4_AsStated ==
    Merged =>
        /\ OneRowPerPair
        /\ \A p \in AllPairs : \A i \in RowsShowing(p) :
              /\ (p \notin PairsOf(old_df) => out.rows[i].Old = NA /\ out.rows[i].New # NA)
              /\ (p \notin PairsOf(new_df) => out.rows[i].New = NA /\ out.rows[i].Old # NA)

\* C4 as amended: one result row for every distinct pair of either table and no
\* others; a pair only in the new table has Old == "N/A", and New != "N/A" unless
\* the stored value of its first new row is "N/A" or null or one of its keys is
\* null; the same with old and new exchanged.
C4_Amended ==
    Merged =>
        /\ OneRowPerPair
        /\ \A p \in AllPairs : \A i \in RowsShowing(p) :
              /\ (p \notin PairsOf(old_df) =>
                    /\ out.rows[i].Old = NA
                    /\ (out.rows[i].New = NA
                          <=> NullKey(p) \/ Shown(FirstStored(new_df, p)) = NA))
              /\ (p \notin PairsOf(new_df) =>
                    /\ out.rows[i].New = NA
                    /\ (out.rows[i].Old = NA
                          <=> NullKey(p) \/ Shown(FirstStored(old_df, p)) = NA))

\* a merge with a pair only in the new table, whose row has a New, and a pair in
\* both tables
C4_Witness ==
    /\ Merged /\ Len(out.rows) = 2
    /\ \E q, r \in AllPairs :
          /\ q \in PairsOf(new_df) \ PairsOf(old_df)
          /\ r \in PairsOf(new_df) \cap PairsOf(old_df)
          /\ \E i \in RowsShowing(q) : out.rows[i].Old = NA /\ out.rows[i].New # NA

\* the number a stored value is under the unit policy of the claims
ParsedUnder(x, whole) ==
    LET f == ToFloat(x)
        v == IF whole THEN f ELSE Num(f.m, f.e + 2)
    IN  IF v.e <= 4 THEN Num(Align(v, 4), 4) ELSE v
\* the unit policy the code applies to a metric
CodeWhole(metric) ==
    ~(\E i \in 1..(Len(PyStr(metric)) - 8) :
          SubSeq(PyStr(metric), i, i + 8) = <<"(", "i", "n", "s", "i", "g", "h", "t", ")">>)
      \/ (metric.k = "str" /\ metric.s \in INSIGHTS_WHOLE_NUMBER_METRICS)
OneSided(p) == (p \in PairsOf(old_df)) # (p \in PairsOf(new_df))
Present(p) == IF p \in PairsOf(new_df) THEN FirstStored(new_df, p) ELSE FirstStored(old_df, p)

\* C5 as stated: for a pair with a row on one side only, the result carries the
\* present side's value as its parsed number under the unit policy (stored "500"
\* gives 500.0), and the missing side, Change and % Change are "N/A".
C5_AsStated ==
    Merged =>
        \A p \in AllPairs : \A i \in RowsShowing(p) :
            OneSided(p) /\ ~NullKey(p) /\ Finite(Present(p)) =>
                LET row == out.rows[i]
                    shown == IF p \in PairsOf(new_df) THEN row.New ELSE row.Old
                    missing == IF p \in PairsOf(new_df) THEN row.Old ELSE row.New
                IN  /\ shown = ParsedUnder(Present(p), CodeWhole(p[1]))
                    /\ missing = NA /\ row.Change = NA /\ row.PctChange = NA

\* C5 as amended: for a pair with a row on one side only (and no null key), the
\* comparator is called with "N/A" for the missing side, so the result carries
\* the present side's stored value as it is stored, neither parsed nor scaled
\* (stored "500" gives "500"; a null gives "N/A"), and the missing side, Change
\* and % Change are "N/A".
C5_Amended ==
    Merged =>
        \A p \in AllPairs : \A i \in RowsShowing(p) :
            OneSided(p) /\ ~NullKey(p) =>
                LET row == out.rows[i]
                    shown == IF p \in PairsOf(new_df) THEN row.New ELSE row.Old
                    missing == IF p \in PairsOf(new_df) THEN row.Old ELSE row.New
                IN  /\ shown = Shown(Present(p))
                    /\ shown.k # "num"
                    /\ missing = NA /\ row.Change = NA /\ row.PctChange = NA

\* a merge with a pair only in the new table whose stored value is "500"
C5_Witness ==
    /\ Merged
    /\ \E p \in PairsOf(new_df) \ PairsOf(old_df) : \E i \in RowsShowing(p) :
          /\ ~NullKey(p)
          /\ FirstStored(new_df, p) = Str(<<"5", "0", "0">>)
          /\ out.rows[i].New = Str(<<"5", "0", "0">>)

\* the unit policy of the section: process_section merges the insights section
\* on "Insight" and the actions section on "strategy"
SectionWhole(metric) ==
    IF key_col = col_Insight
    THEN metric.k = "str" /\ metric.s \in INSIGHTS_WHOLE_NUMBER_METRICS
    ELSE TRUE

\* C6: in the insights section a metric is whole-number iff it is in
\* INSIGHTS_WHOLE_NUMBER_METRICS, and in the actions section every metric is
\* whole-number, whatever its name: a pair with a number on both sides is
\* compared under that policy.
C6_SectionPolicy ==
    Merged =>
        \A p \in PairsOf(old_df) \cap PairsOf(new_df) : \A i \in RowsShowing(p) :
            ~NullKey(p) /\ Finite(FirstStored(old_df, p)) /\ Finite(FirstStored(new_df, p)) =>
                /\ out.rows[i].Old = ParsedUnder(FirstStored(old_df, p), SectionWhole(p[1]))
                /\ out.rows[i].New = ParsedUnder(FirstStored(new_df, p), SectionWhole(p[1]))

\* the KEY values and the metric columns of the two tables of a wide merge
ExploreKeysOf(d) == {d.rows[i][col_KEY] : i \in 1..Len(d.rows)}
WideKeys == ExploreKeysOf(old_df) \cup ExploreKeysOf(new_df)
WideMetrics == (old_df.columns \cup new_df.columns) \ {col_collection_time, col_org_url, col_KEY}
WideRows(k, m) ==
    {i \in 1..Len(out.rows) : out.rows[i].DATE_RANGE = Shown(k) /\ out.rows[i].METRIC = Str(m)}
Lacks(d, k, m) == m \notin d.columns \/ k \notin ExploreKeysOf(d)

\* C7: process_explore_section returns one result row for every (key, metric)
\* with key a KEY value of either table and metric a column of either table
\* outside {collection_time, org_url, KEY}, and no others; a side that lacks the
\* column or has no row for the key counts as "N/A", and nothing fails.
C7_WideMerge ==
    Merged =>
        /\ out.exc = ""
        /\ Len(out.rows) = Cardinality(WideKeys) * Cardinality(WideMetrics)
        /\ \A k \in WideKeys : \A m \in WideMetrics :
              /\ Cardinality(WideRows(k, m)) = 1
              /\ \A i \in WideRows(k, m) :
                    /\ (Lacks(old_df, k, m) =>
                          out.rows[i].Old = NA /\ out.rows[i].Change = NA
                              /\ out.rows[i].PctChange = NA)
                    /\ (Lacks(new_df, k, m) =>
                          out.rows[i].New = NA /\ out.rows[i].Change = NA
                              /\ out.rows[i].PctChange = NA)

\* a wide merge where only the new table has some metric column and only the old
\* table has some key
C7_Witness ==
    /\ Merged /\ key_col = col_KEY
    /\ \E m \in new_df.columns \ old_df.columns : \E k \in ExploreKeysOf(old_df) :
          /\ k \notin ExploreKeysOf(new_df)
          /\ ExploreKeysOf(new_df) # {}
          /\ \E i \in WideRows(k, m) : out.rows[i].Old = NA /\ out.rows[i].New = NA

\* the rows of a table that hold the pair (keyed merge), the key (wide merge)
PairAt(d, p) == {i \in 1..Len(d.rows) : <<d.rows[i][key_col], d.rows[i][col_date_range]>> = p}
KeyAt(d, k) == {i \in 1..Len(d.rows) : d.rows[i][col_KEY] = k}
Lowest(S) == CHOOSE i \in S : \A j \in S : i <= j
\* the pair (the key) is held by several rows of one of the two tables
Repeated(p) == Cardinality(PairAt(old_df, p)) > 1 \/ Cardinality(PairAt(new_df, p)) > 1
RepeatedKey(k) == Cardinality(KeyAt(old_df, k)) > 1 \/ Cardinality(KeyAt(new_df, k)) > 1
\* the value of the first row of the pair in table order, "N/A" without a row
FirstOf(d, p) == IF PairAt(d, p) = {} THEN NA ELSE StoredValue(d.rows[Lowest(PairAt(d, p))])
FirstOfKey(d, k, metric) ==
    IF KeyAt(d, k) = {} \/ metric \notin d.columns THEN NA
    ELSE d.rows[Lowest(KeyAt(d, k))][metric]
\* the four values of a result row are the comparison of the two given values
Compares(row, o, n, whole) ==
    LET c == compare_values(o, n, whole)
    IN  row.Old = c.oldv /\ row.New = c.newv /\ row.Change = c.delta /\ row.PctChange = c.pct
\* the result rows of a key and a metric of the wide merge
WideShowing(k, metric) ==
    {i \in 1..Len(out.rows) : out.rows[i].DATE_RANGE = k /\ out.rows[i].METRIC = Str(metric)}
AllKeys == {old_df.rows[i][col_KEY] : i \in 1..Len(old_df.rows)}
               \cup {new_df.rows[i][col_KEY] : i \in 1..Len(new_df.rows)}
\* a repeated pair has one result row, compared from the first rows of the pair
FirstOfPair(p) ==
    /\ Cardinality(RowsShowing(p)) = 1
    /\ \A i \in RowsShowing(p) :
           Compares(out.rows[i], FirstOf(old_df, p), FirstOf(new_df, p), KeyedIsWhole(p[1]))
FirstOfWide(k) ==
    \A metric \in MetricColumns(old_df, new_df) :
        /\ Cardinality(WideShowing(k, metric)) = 1
        /\ \A i \in WideShowing(k, metric) :
               Compares(out.rows[i], FirstOfKey(old_df, k, metric), FirstOfKey(new_df, k, metric),
                        metric \in EXPLORE_WHOLE_NUMBER_METRICS)

\* C16 as stated: when a table holds several rows of the same (metric,
\* date_range) pair (keyed merge) or of the same KEY (wide merge), there is a
\* single result row for the pair (for the key and each metric), and it compares
\* the values of the first such row of each side in table order.
C16_AsStated ==
    (Merged /\ out.exc = "") =>
        IF key_col = col_KEY
        THEN \A k \in AllKeys : RepeatedKey(k) => FirstOfWide(k)
        ELSE \A p \in AllPairs : Repeated(p) => FirstOfPair(p)

\* C16 amended: as stated for a pair whose metric and date range are both
\* present; a repeated pair whose metric or date range is null still has a
\* single result row, but no row of the tables is looked up for it: Old and New
\* are "N/A" whatever the rows hold.
C16_Amended ==
    (Merged /\ out.exc = "") =>
        IF key_col = col_KEY
        THEN \A k \in AllKeys : RepeatedKey(k) => FirstOfWide(k)
        ELSE \A p \in AllPairs : Repeated(p) =>
                 IF NullKey(p)
                 THEN /\ Cardinality(RowsShowing(p)) = 1
                      /\ \A i \in RowsShowing(p) : out.rows[i].Old = NA /\ out.rows[i].New = NA
                 ELSE FirstOfPair(p)

\* a keyed merge of a table in which a pair has two rows of different values,
\* the result row carrying the first one
C16_Witness ==
    /\ Merged
    /\ key_col # col_KEY
    /\ \E p \in AllPairs :
          /\ ~NullKey(p)
          /\ Cardinality(PairAt(old_df, p)) > 1
          /\ \E i, j \in PairAt(old_df, p) : StoredValue(old_df.rows[i]) # StoredValue(old_df.rows[j])
          /\ FirstOf(old_df, p) # NA
          /\ \A i \in RowsShowing(p) : out.rows[i].Old # NA

----------------------------------------------------------------------------
(* What the claims about a comparison run speak of *)

\* the run stopped on an exception inside process_section
SectionAborted == pc = "aborted" /\ log # <<>> /\ log[Len(log)].section \in Sections
\* the latest call of process_section reached its loop over the organizations
\* and returned
LoopReturned == col_org \in df.columns /\ ~SectionAborted
\* the timestamp of the row starts with the date
OnDate(r, date) ==
    /\ Len(date) <= Len(r[col_collection_time].s)
    /\ \A i \in 1..Len(date) : r[col_collection_time].s[i] = date[i]
\* the organization has a row on the date in the frame of the latest call
HasSlice(org, date) ==
    \E i \in 1..Len(df.rows) : df.rows[i][col_org].s = org /\ OnDate(df.rows[i], date)
\* the organization has result rows in what the latest call returned
Contributes(org) ==
    \E i \in 1..Len(sec_result) :
        /\ sec_result[i].org = org
        /\ \E f \in 1..Len(sec_result[i].frames) : sec_result[i].frames[f] # <<>>
OrgsSeen ==
    {df.rows[i][col_org].s : i \in 1..Len(df.rows)}
        \cup {sec_result[i].org : i \in 1..Len(sec_result)}
\* a URL cell of a stored table that holds no ".report/"
UrlColumns == {col_org_url, col_Page_URL, col_Original_URL}
OffPattern(table) ==
    \E i \in 1..Len(table.rows) : \E c \in UrlColumns \cap table.columns :
        ~Contains(table.rows[i][c].s, <<".", "r", "e", "p", "o", "r", "t", "/">>)

\* C8: when a call of process_section has gone through its organizations, an
\* organization has result rows in the returned results exactly when it has a
\* row whose collection_time starts with date1 or one whose collection_time
\* starts with date2; an organization with neither contributes nothing, and no
\* exception comes of it (a call only ever stops on a URL cell that is no
\* report URL).
C8_SlicesDecide ==
    /\ LoopReturned =>
           \A org \in OrgsSeen :
               Contributes(org) <=> (HasSlice(org, date1) \/ HasSlice(org, date2))
    /\ SectionAborted => OffPattern(store[log[Len(log)].section])

\* a call that skipped one organization (rows on neither date) and returned
\* result rows for another
C8_Witness ==
    /\ LoopReturned
    /\ \E skipped, kept \in OrgsSeen :
          /\ ~HasSlice(skipped, date1) /\ ~HasSlice(skipped, date2) /\ ~Contributes(skipped)
          /\ Contributes(kept)

\* the rows all_results holds for an organization
ResultRows(i) == Concat(all_results[i].frames)
\* process_section printed a diagnostic about the section in this step
Diagnosed(section) ==
    /\ Len(log') > Len(log)
    /\ log'[Len(log')].section = section
    /\ log'[Len(log')].event \in {"no org_url-like col", "sheet is empty"}

C10_NeverAborted == pc # "aborted"

----------------------------------------------------------------------------
(* What the claims about the helper functions speak of *)

\* what follows the first occurrence of sep in s (s has one)
After(s, sep) ==
    LET i == CHOOSE k \in 1..Len(s) :
                 /\ SubSeq(s, k, k + Len(sep) - 1) = sep
                 /\ \A j \in 1..(k - 1) : SubSeq(s, j, j + Len(sep) - 1) # sep
    IN  SubSeq(s, i + Len(sep), Len(s))
\* the characters of s before the first one that is in stops
Before(s, stops) ==
    LET ends == {k \in 1..Len(s) : s[k] \in stops}
    IN  IF ends = {} THEN s ELSE SubSeq(s, 1, (CHOOSE k \in ends : \A j \in ends : k <= j) - 1)
\* seg1 of https://{env}.oa.report/{seg1}[/{more segments}][?query]
FirstSegment(u) == Before(After(u, <<".", "o", "a", ".", "r", "e", "p", "o", "r", "t", "/">>), {"/", "?"})

\* C11 as stated: on every URL https://{env}.oa.report/{seg1}[/{more
\* segments}][?query], extract_org_from_url returns exactly seg1.
C11_FirstSegment == org_ret # NoOrg => org_ret = Str(FirstSegment(url_arg.s))

----------------------------------------------------------------------------
(* What the claims about the sheets speak of *)

\* the workbook has been written
Written == pc \in {"style", "done"}
\* the stored insights table has a row without a date range, without a metric
SourceLacks(c) ==
    \E i \in 1..Len(store["insights"].rows) : isna(store["insights"].rows[i][c])
\* the row of a sheet stands for a pair whose date range or metric was missing
MissingKey(r) ==
    \/ r.DATE_RANGE = NA /\ SourceLacks(col_date_range)
    \/ r.METRIC = NA /\ SourceLacks(col_Insight)
\* (DATE_RANGE, METRIC) of r is before that of s, text compared by code point
KeyBefore(r, s) ==
    \/ StrLess(r.DATE_RANGE.s, s.DATE_RANGE.s)
    \/ r.DATE_RANGE = s.DATE_RANGE /\ StrLess(r.METRIC.s, s.METRIC.s)
\* r may stand above s in a sheet
InOrder(r, s) ==
    IF MissingKey(r) # MissingKey(s) THEN MissingKey(s) ELSE ~KeyBefore(s, r)

\* C12 as stated: in every sheet of the written workbook the rows are in
\* ascending (DATE_RANGE, METRIC) order, and a row whose DATE_RANGE or METRIC
\* was missing in the stored table stands below every row whose values were
\* present.
C12_SortedMissingLast ==
    Written =>
        \A w \in 1..Len(workbook) : \A i, j \in 1..Len(workbook[w].rows) :
            i < j => InOrder(workbook[w].rows[i], workbook[w].rows[j])

\* the six cells of a row of a sheet
Cells(r) == <<r.DATE_RANGE, r.METRIC, r.Old, r.New, r.Change, r.PctChange>>
\* the cells of the rows an organization has in all_results, as to_excel writes them
OrgCells(i) == {Cells(SheetRow(ResultRows(i)[k])) : k \in 1..Len(ResultRows(i))}
SheetCells(w) == {Cells(workbook[w].rows[k]) : k \in 1..Len(workbook[w].rows)}

\* C13 as stated: the written workbook has exactly one sheet for every
\* organization with result rows, named by the first 31 characters of the
\* organization's name, and the sheet holds that organization's rows and no
\* others.
C13_OneSheetPerOrg ==
    Written =>
        /\ Len(workbook) = Len(all_results)
        /\ \A i \in 1..Len(all_results) :
               \E w \in 1..Len(workbook) :
                   /\ workbook[w].name = Take(all_results[i].org, 31)
                   /\ Len(workbook[w].rows) = Len(ResultRows(i))
                   /\ SheetCells(w) = OrgCells(i)

\* the styling has run
Styled == pc = "done"
\* the rows of the sheets of the workbook
AllSheetRows ==
    UNION {{workbook[w].rows[k] : k \in 1..Len(workbook[w].rows)} : w \in 1..Len(workbook)}
\* the % Change cell holds a number; it is below 1e-9 in absolute value; at least 1
NumericPct(r) == r.PctChange.k \in {"num", "int"}
PctNoChange(r) ==
    IF r.PctChange.e <= 9 THEN r.PctChange.m = 0
    ELSE Abs(r.PctChange.m) < Pow10(r.PctChange.e - 9)
PctSignificant(r) == Abs(r.PctChange.m) >= Pow10(r.PctChange.e)
Filled(r) == r.ChangeFill = "grey" /\ r.PctFill = "grey"

\* C14: after apply_styling every row of every sheet has the grey fill on its
\* Change and % Change cells; a row with a numeric % Change p has the red font
\* on the % Change cell exactly when |p| < 1e-9, the bold font on both cells
\* exactly when |p| >= 1, and neither font when 1e-9 <= |p| < 1.
C14_Styling ==
    Styled =>
        \A r \in AllSheetRows :
            /\ Filled(r)
            /\ NumericPct(r) =>
                   /\ (r.PctFont = "red") <=> PctNoChange(r)
                   /\ (r.PctFont = "bold" /\ r.ChangeFont = "bold") <=> PctSignificant(r)
                   /\ (~PctNoChange(r) /\ ~PctSignificant(r)) =>
                          (r.PctFont = "default" /\ r.ChangeFont = "default")

\* a styled workbook with a row whose numeric % Change is zero and in red
C14_Witness ==
    /\ Styled
    /\ \E r \in AllSheetRows : NumericPct(r) /\ PctNoChange(r) /\ r.PctFont = "red" /\ Filled(r)

\* C15 as stated: after apply_styling a row whose % Change cell holds text
\* ("N/A", or "inf" for an infinite percent change) has the grey fill and
\* neither the red nor the bold font on its Change and % Change cells.
C15_TextUnstyled ==
    Styled =>
        \A r \in AllSheetRows :
            r.PctChange.k = "str" =>
                Filled(r) /\ r.PctFont = "default" /\ r.ChangeFont = "default"

----------------------------------------------------------------------------
(* What the claims about the uploads speak of *)

\* the files of the folder that carry the title of the call
Titled == SelectSeq(folder, LAMBDA f : f.title = call.title)
\* a call of upload_df_to_daily_gsheet_named has returned without raising
DailyReturned == call.fn = "daily" /\ call.pc = "returned"

\* C17: after a completed call of upload_df_to_daily_gsheet_named the folder
\* holds exactly one spreadsheet of the call's title, and its content is the
\* data frame of that call
C17_OneFilePerDay ==
    DailyReturned => /\ Len(Titled) = 1
                     /\ Titled[1].values = DailyValues(call.df)

\* a step that makes a write call
Attempted == call'.tries > call.tries
\* C19: the write call is made only inside the loop, at most `retries` times
\* and never after one that succeeded, so the rows are written at most once; a
\* quota error with turns left stays in the loop, any other error is raised at
\* once and writes nothing
C19_Retries ==
    [][Attempted =>
          /\ call.pc \in {"update", "append"}
          /\ call.tries < retries
          /\ call.wrote = 0
          /\ call'.wrote <= 1
          /\ (call'.last = "ok") =>
                 /\ call'.wrote = 1
                 /\ call'.pc = "returned"
                 /\ call.fn = "append" => sheet' = sheet \o DataRows(call.df)
          /\ (call'.last = "quota") =>
                 /\ call'.wrote = 0
                 /\ call'.pc = IF call'.tries < retries THEN call.pc ELSE "returned"
                 /\ folder' = folder /\ sheet' = sheet
          /\ (call'.last = "other") =>
                 /\ call'.pc = "raised"
                 /\ folder' = folder /\ sheet' = sheet]_vars
\* a call that met a quota error and then succeeded
C19_Witness ==
    /\ call.pc = "returned"
    /\ call.printed = <<"rate limit", "written">>
    /\ call.tries = 2 /\ call.wrote = 1

\* C20: when upload_df_to_daily_gsheet_named returns without raising, a
\* spreadsheet of the day holds the header and every row of the data frame
C20_ReturnedMeansWritten ==
    DailyReturned =>
        \E f \in 1..Len(folder) :
            /\ folder[f].title = call.title
            /\ Len(folder[f].values) = 1 + Len(call.df.rows)
            /\ folder[f].values[1] = HeaderRow(call.df)
            /\ \A i \in 1..Len(call.df.rows) :
                   folder[f].values[i + 1] = DailyValues(call.df)[i + 1]

----------------------------------------------------------------------------
(* What the claim about the row IDs speaks of *)

\* the four parts the ID is built from
IdParts ==
    <<_slugify(id_args.date_range), _slugify(Str(base_fig(id_args.figure))),
      _section_key(id_args.section, id_args.figure), Org(id_args.url)>>

\* C18: the ID make_id returns splits on "_" into exactly its four parts, the
\* range slug, the figure slug, the section key and the organization slug: no
\* part holds an underscore
C18_FourParts == id # NoId => Split(id, <<"_">>) = IdParts

----------------------------------------------------------------------------
(* What the claim about the explore metrics speaks of *)

\* the section loop has passed the explore section, whose results sec_result holds
ExploreDone == pc = "write"
\* the METRIC cells of the rows the explore section gave
ExploreMetrics ==
    UNION { { Concat(sec_result[i].frames)[j].METRIC :
                j \in 1..Len(Concat(sec_result[i].frames)) } :
            i \in 1..Len(sec_result) }
\* the bookkeeping columns: the collection time, the key, the URL column that
\* named the organization, and the org column process_section derives
Bookkeeping ==
    {col_collection_time, col_KEY, UrlColumn(store["explore"]), col_org}

\* C21: every result row of the explore section has as METRIC a metric column
\* of the stored explore table, never a bookkeeping column
C21_MetricsOnly ==
    ExploreDone =>
        \A m \in ExploreMetrics :
            /\ m.k = "str"
            /\ m.s \in store["explore"].columns \ Bookkeeping

====
